---- MODULE Spec2Model ----
(***************************************************************************)
(* Order/catalog service of backend/app.js over the PostgreSQL schema of   *)
(* backend/init.sql and a Redis read-through cache.                        *)
(*                                                                         *)
(* Each HTTP handler is a process; its actions are the handler's code      *)
(* between two awaits (Node runs that code atomically), so requests        *)
(* interleave exactly at store statements and cache operations.            *)
(*                                                                         *)
(* The store is PostgreSQL at its default isolation, READ COMMITTED:       *)
(*   - a SELECT never blocks and sees committed rows plus the own          *)
(*     transaction's writes;                                               *)
(*   - an UPDATE takes the row lock, waits while another transaction holds *)
(*     it, and is then evaluated on the latest committed row version;      *)
(*   - CHECK constraints of init.sql abort the statement that breaks them; *)
(*   - pool.query(...) is one autocommitted statement.                     *)
(* Money is counted in whole units (DECIMAL(10,2) scaled), so price *      *)
(* quantity is exact, as it is in the code for sums far below 2^53.        *)
(*                                                                         *)
(* A cache command may reject (CacheFault); a store statement fails only   *)
(* for a reason the schema gives (a CHECK, a deadlock), except in SpecPool,*)
(* where the pool may be exhausted and a connection may break.  The variables     *)
(* hist and acked, and the fields ver and req, are history: no action's    *)
(* guard or store/cache effect reads them.                                 *)
(***************************************************************************)
EXTENDS Integers, Sequences, FiniteSets, TLC

---------------------------------------------------------------------------
(* Bounds of the model *)

\* concurrent requests in the all-operations specification
MixReqs == 2
\* concurrent requests in the orders-only specification
OrderReqs == 2
\* concurrent requests in the catalog specification
CatalogReqs == 3
\* cache operations that may fail in one behaviour
MaxCacheFaults == 1
\* a product id no row has
NoSuchId == 9
\* concurrent requests in the cache-expiry specification
ExpiryReqs == 3
\* concurrent requests in the invalidation specification
InvalReqs == 3
\* concurrent requests in the orders-and-reads specification
OrderCacheReqs == 3
\* concurrent requests in the order-status specification
StatusReqs == 2
\* concurrent requests in the statistics specification
StatsReqs == 3
\* concurrent requests in the crossing-orders specification
CrossReqs == 2
\* concurrent requests in the connection-pool specification
PoolReqs == 2
\* concurrent requests in the client-pricing specification
PricingReqs == 2
\* the retry counts run to MaxRetries; the cap of the delay is met at 10
MaxRetries == 12

\* the clock of the cache server stops here (seconds)
MaxClock == 900
\* the clock advances in steps of this many seconds
ClockStep == 300

\* request slots: as many as the widest specification uses
MaxReqs ==
  LET Larger(a, b) == IF a >= b THEN a ELSE b IN
  Larger(Larger(Larger(MixReqs, OrderReqs), Larger(CatalogReqs, ExpiryReqs)),
         Larger(Larger(StatusReqs, InvalReqs), Larger(OrderCacheReqs, Larger(PricingReqs, Larger(PoolReqs, Larger(CrossReqs, StatsReqs))))))

Reqs == 1..MaxReqs

---------------------------------------------------------------------------
(* Rows of init.sql *)

\* init.sql 58-73: sample products (two of them, small stocks).  The columns
\* description, category and image_url behave as name does and are left out.
\* created_at (init.sql 26, DEFAULT CURRENT_TIMESTAMP) is a timestamp, which
\* the driver hands to the handler as a Date: [date |-> seconds]; updated_at
\* behaves as created_at does and is left out.
\* ver is history: the number of committed UPDATEs of the row, which tells a
\* copy of the row from a newer one.
SeedProducts ==
  (1 :> [name |-> "laptop", price |-> 10, stock |-> 5, is_active |-> TRUE,
         created_at |-> [date |-> 0], ver |-> 0])
  @@ (2 :> [name |-> "mouse", price |-> 20, stock |-> 2, is_active |-> TRUE,
            created_at |-> [date |-> 0], ver |-> 0])

\* init.sql 76-85: the first sample order, delivered, with its two items (one
\* of each of the two products); total_amount is the sum of the items.  req is
\* history: the request that inserted the row, 0 for a sample row.
SeedOrders ==
  1 :> [id |-> 1, customer_name |-> "john", customer_email |-> "j@x",
        total_amount |-> 30, status |-> "delivered", req |-> 0]

SeedOrderItems ==
  << [order_id |-> 1, product_id |-> 1, quantity |-> 1, price |-> 10],
     [order_id |-> 1, product_id |-> 2, quantity |-> 1, price |-> 20] >>

ProductChecksNoStock(row) == row.price >= 0

ProductChecksNoPrice(row) == row.stock >= 0

\* init.sql 19, 21: CHECK (price >= 0), CHECK (stock >= 0)
ProductChecks(row) == row.price >= 0 /\ row.stock >= 0

\* init.sql 33: CHECK (total_amount >= 0)
OrderChecks(row) == row.total_amount >= 0

OrderItemChecksNoQuantity(row) == row.price >= 0

\* init.sql 44-45: CHECK (quantity > 0), CHECK (price >= 0)
OrderItemChecks(row) == row.quantity > 0 /\ row.price >= 0

\* init.sql 34: CHECK (status IN ('pending', ..., 'cancelled'))
OrderStatusChecks(row) ==
  row.status \in {"pending", "processing", "shipped", "delivered", "cancelled"}

validStatusesWithoutCancelled == {"pending", "processing", "shipped", "delivered"}

validStatusesWithRefunded ==
  {"pending", "processing", "shipped", "delivered", "cancelled", "refunded"}

\* app.js 343
validStatuses == {"pending", "processing", "shipped", "delivered", "cancelled"}

---------------------------------------------------------------------------
(* Cache keys and values *)

\* app.js 66: 'products:all'
AllKey == <<"products:all">>

\* app.js 102: `product:${id}`
ProductKey(id) == <<"product", id>>

\* TERRAFORM_LEARNING_GUIDE.md 480: the key `stats`
StatsKey == <<"stats">>

Keys == {AllKey, StatsKey} \cup {ProductKey(i) : i \in 1..(NoSuchId + 1)}

\* app.js 87: the catalog is cached for 5 minutes
ListTTL == 300

\* app.js 124: a product is cached for 10 minutes
ProductTTL == 600

\* Date.prototype.toJSON, which JSON.stringify applies to a Date: the ISO
\* string of the time
toISOString(d) == [iso |-> d.date]

\* what JSON.stringify makes of a row: texts, numbers and booleans are kept, a
\* Date becomes its ISO string, a string stays a string
toJSON(row) ==
  [row EXCEPT !.created_at = IF "date" \in DOMAIN @ THEN toISOString(@) ELSE @]

\* app.js 124: JSON.stringify of a row
JSONstringify(row) == [json |-> toJSON(row)]

\* app.js 87: JSON.stringify of the rows of the catalog
JSONstringifyRows(rows) == [json |-> [i \in DOMAIN rows |-> toJSON(rows[i])]]

\* app.js 74, 110: JSON.parse of the cached string; no reviver is given, so an
\* ISO string stays a string
JSONparse(s) == s.json

---------------------------------------------------------------------------
(* Request bodies the model draws from *)

\* POST /api/products bodies (app.js 138); a missing key is an absent field
CreateBodies ==
  { [name |-> "cable", category |-> "acc", price |-> 30],
    [name |-> "cable", category |-> "acc", price |-> 30, stock |-> 4],
    [name |-> "cable", category |-> "acc", price |-> 0],
    [name |-> "cable", category |-> "acc", price |-> -1],
    [name |-> "cable", category |-> "acc", price |-> 30, stock |-> -1],
    [name |-> "cable", category |-> "acc"],
    [name |-> "cable", price |-> 30],
    [category |-> "acc", price |-> 30] }

\* PUT /api/products/:id bodies (app.js 169)
UpdateBodies ==
  { [price |-> 15],
    [price |-> -1],
    [stock |-> 1],
    [stock |-> -1],
    [name |-> "renamed"],
    [name |-> "renamed", price |-> 15, stock |-> 1] }

\* :id parameters
IdParams == {1, 2, NoSuchId}

Item(p, q) == [product_id |-> p, quantity |-> q]

\* POST /api/orders bodies (app.js 259)
OrderBodies ==
  { [customer_name |-> "ann", customer_email |-> "a@x", items |-> <<Item(1, 3)>>],
    [customer_name |-> "ann", customer_email |-> "a@x", items |-> <<Item(1, 2)>>],
    [customer_name |-> "ann", customer_email |-> "a@x", items |-> <<Item(1, 3), Item(2, 1)>>],
    [customer_name |-> "ann", customer_email |-> "a@x", items |-> <<Item(2, 1), Item(1, 3)>>],
    [customer_name |-> "ann", customer_email |-> "a@x", items |-> <<Item(1, 3), Item(1, 3)>>],
    [customer_name |-> "ann", customer_email |-> "a@x", items |-> <<Item(1, 6)>>],
    [customer_name |-> "ann", customer_email |-> "a@x", items |-> <<Item(NoSuchId, 1)>>],
    [customer_name |-> "ann", customer_email |-> "a@x", items |-> <<Item(1, 2), Item(NoSuchId, 1)>>],
    [customer_name |-> "ann", customer_email |-> "a@x", items |-> <<Item(1, 1), Item(2, 0)>>],
    [customer_name |-> "ann", customer_email |-> "a@x", items |-> <<Item(1, -1)>>],
    [customer_name |-> "ann", customer_email |-> "a@x", items |-> <<Item(1, 2), Item(2, -1)>>],
    [customer_name |-> "ann", customer_email |-> "a@x", items |-> <<>>],
    [customer_name |-> "", customer_email |-> "a@x", items |-> <<Item(1, 2)>>],
    [customer_name |-> "ann", customer_email |-> "", items |-> <<Item(1, 2)>>],
    [customer_email |-> "a@x", items |-> <<Item(1, 2)>>],
    [customer_name |-> "ann", items |-> <<Item(1, 2)>>] }

\* PATCH /api/orders/:id/status bodies (app.js 341): the five statuses, two
\* values that are none of them, and a body without status
StatusBodies ==
  { [status |-> st] : st \in {"pending", "processing", "shipped", "delivered",
                               "cancelled", "refunded", ""} }
  \cup { <<>> }

\* :id parameters of the order routes: the sample order, the first order a
\* request creates, and an id no order has
OrderIdParams == {1, 2, NoSuchId}

\* the bodies of the orders-only specification: competing orders on products 1 and 2
ContendingOrderBodies ==
  { [customer_name |-> "ann", customer_email |-> "a@x", items |-> <<Item(1, 3)>>],
    [customer_name |-> "ann", customer_email |-> "a@x", items |-> <<Item(1, 2)>>],
    [customer_name |-> "ann", customer_email |-> "a@x", items |-> <<Item(1, 3), Item(2, 1)>>],
    [customer_name |-> "ann", customer_email |-> "a@x", items |-> <<Item(2, 1), Item(1, 3)>>],
    [customer_name |-> "ann", customer_email |-> "a@x", items |-> <<Item(2, 2), Item(1, 0)>>] }

\* POST /api/orders bodies that differ in what the client says about money:
\* a price in a line, a total_amount in the body, or neither
PricedOrderBodies ==
  { [customer_name |-> "ann", customer_email |-> "a@x", items |-> <<Item(1, 2)>>],
    [customer_name |-> "ann", customer_email |-> "a@x", total_amount |-> 1,
     items |-> <<[product_id |-> 1, quantity |-> 2, price |-> 1]>>],
    [customer_name |-> "ann", customer_email |-> "a@x", items |-> <<Item(2, 1), Item(1, 1)>>],
    [customer_name |-> "ann", customer_email |-> "a@x", total_amount |-> 0,
     items |-> <<[product_id |-> 2, quantity |-> 1, price |-> 1],
                 [product_id |-> 1, quantity |-> 1, price |-> 99]>>] }

---------------------------------------------------------------------------
VARIABLES
  products,      \* committed rows of table products: id -> row
  productSeq,    \* products_id_seq: the next SERIAL id
  orders,        \* committed rows of table orders: id -> row
  order_items,   \* committed rows of table order_items, in commit order
  orderSeq,      \* orders_id_seq
  redis,         \* the cache: key -> <<>> (no entry) or <<entry>>; an entry
                 \*   is the string, its expiry time and, as history, the
                 \*   time it was stored at and the request that stored it
  now,           \* the clock, in seconds
  pc,            \* per request: the await the handler is at
  op,            \* per request: the operation and its parameters
  loc,           \* per request: the handler's local variables
  tx,            \* per request: its open transaction's uncommitted writes
  res,           \* per request: the response sent, once sent
  hist,          \* history, per request: what the request has done so far
  acked,         \* history, per product: the newest row version written by
                 \*   an update/delete (.mutation) and by an order (.order)
                 \*   that has been answered with success
  faults,        \* cache operations that have failed so far
  pool,          \* the connection pool: the requests holding a client (out),
                 \*   the clients held by handlers the model does not follow
                 \*   one by one (others) and, as history, how often each
                 \*   request acquired and released a client
  socket         \* the cache client's socket: the retry counts handed to
                 \*   reconnectStrategy and the delays it returned for them

storeVars == <<products, productSeq, orders, order_items, orderSeq>>
procVars == <<pc, op, loc, tx, res, hist>>
vars == <<products, productSeq, orders, order_items, orderSeq, redis, now,
          pc, op, loc, tx, res, hist, acked, faults, pool, socket>>

NoTx == [open |-> FALSE, stock |-> <<>>, order |-> <<>>, items |-> <<>>]

\* committed: the request's store mutation is committed; delIssued: the keys
\* it has sent a del for; invalidated: the keys its del removed; cacheFailed:
\* the cache commands of the request that rejected; read: the prices its
\* stock-check loop read; sawAck, stock0 and active0: acked.mutation, the
\* committed stocks and the ids of the active products as they were when the
\* request arrived; put: the time its put was stored at; price0: the committed prices then; sawOrder: acked.order then; cachedBefore: the cache as it was when the request's
\* mutation committed; orders0: the ids of the orders then; before: the row an
\* UPDATE of the request found; got: the time of the request's cache get and the key's
\* entry, live or not, at that time
NoHist == [committed |-> FALSE, delIssued |-> {}, invalidated |-> {},
           cacheFailed |-> {}, read |-> <<>>, sawAck |-> <<>>, stock0 |-> <<>>,
           active0 |-> {}, orders0 |-> {}, before |-> <<>>, got |-> <<>>,
           cachedBefore |-> <<>>, sawOrder |-> <<>>, price0 |-> <<>>, put |-> <<>>]

\* the database as init.sql leaves it, an empty cache, no request yet
InitApp ==
  /\ products = SeedProducts
  /\ productSeq = Cardinality(DOMAIN SeedProducts) + 1
  /\ orders = SeedOrders
  /\ order_items = SeedOrderItems
  /\ orderSeq = Cardinality(DOMAIN SeedOrders) + 1
  /\ redis = [k \in Keys |-> <<>>]
  /\ now = 0
  /\ pc = [r \in Reqs |-> "idle"]
  /\ op = [r \in Reqs |-> [kind |-> "none"]]
  /\ loc = [r \in Reqs |-> <<>>]
  /\ tx = [r \in Reqs |-> NoTx]
  /\ res = [r \in Reqs |-> <<>>]
  /\ hist = [r \in Reqs |-> NoHist]
  /\ acked = [mutation |-> [i \in 1..NoSuchId |-> 0],
              order |-> [i \in 1..NoSuchId |-> 0]]
  /\ faults = 0
  /\ pool = [out |-> {}, others |-> 0,
             acquired |-> [r \in Reqs |-> 0], released |-> [r \in Reqs |-> 0]]

\* app.js 30-38: the client is created; no reconnection has been asked for
Init ==
  /\ InitApp
  /\ socket = [retries |-> <<>>, delay |-> <<>>]

---------------------------------------------------------------------------
(* Helpers *)

Max(a, b) == IF a >= b THEN a ELSE b

\* the handler of r goes to await `at` with locals l
Goto(r, at, l) ==
  /\ pc' = [pc EXCEPT ![r] = at]
  /\ loc' = [loc EXCEPT ![r] = l]
  /\ res' = res

\* res.status(s).json(body): the handler of r answers and ends
Respond(r, s, body) ==
  /\ pc' = [pc EXCEPT ![r] = "done"]
  /\ loc' = [loc EXCEPT ![r] = <<>>]
  /\ res' = [res EXCEPT ![r] = <<[status |-> s, body |-> body]>>]

\* a cache command rejects (socket closed with the command in flight, error reply)
CacheFault == faults < MaxCacheFaults /\ faults' = faults + 1

CacheOk == faults' = faults

\* redisClient.get(key): <<>> on a miss, <<string>> on a hit.  The server
\* returns no key whose time to live has elapsed.
RedisGet(key) ==
  IF redis[key] # <<>> /\ now < redis[key][1].expiry
  THEN <<redis[key][1].value>>
  ELSE <<>>

RedisSetNoExpiry(r, key, ttl, value) ==
  redis' = [redis EXCEPT ![key] =
              <<[value |-> value, expiry |-> MaxClock + ClockStep, at |-> now, by |-> r]>>]

RedisSetExDropped(r, key, ttl, value) == redis' = redis

\* redisClient.setEx(key, ttl, value) by request r: the entry replaces the
\* key's entry and expires ttl seconds from now
RedisSetEx(r, key, ttl, value) ==
  redis' = [redis EXCEPT ![key] =
              <<[value |-> value, expiry |-> now + ttl, at |-> now, by |-> r]>>]

\* time passes at the cache server
Tick ==
  /\ now + ClockStep <= MaxClock
  /\ now' = now + ClockStep
  /\ UNCHANGED <<storeVars, redis, procVars, acked, faults, pool, socket>>

\* app.js 24: max: 20
PoolMax == 20

\* the pool has an idle client or room for a new one
PoolFree == Cardinality(pool.out) + pool.others < PoolMax

\* pool.connect() resolves for request r
Acquire(r) == pool' = [pool EXCEPT !.out = @ \cup {r}, !.acquired[r] = @ + 1]

ReleaseForgotten(r) == pool' = pool

\* client.release() of request r
Release(r) == pool' = [pool EXCEPT !.out = @ \ {r}, !.released[r] = @ + 1]

\* the numbers of clients the handlers outside the model may hold: none, all
\* but one, all
OtherLoads == {0, PoolMax - 1, PoolMax}

\* pool.query(...) of other handlers start and finish: the number of clients
\* they hold changes, within what the pool allows
OthersChange ==
  /\ \E n \in OtherLoads :
       /\ n # pool.others
       /\ Cardinality(pool.out) + n <= PoolMax
       /\ pool' = [pool EXCEPT !.others = n]
  /\ UNCHANGED <<storeVars, redis, now, procVars, acked, faults, socket>>

\* the promise of the async handler of r rejects with nothing of the handler
\* to catch it.  Express 4 drops the promise and the request is never
\* answered; Express 5 passes the error to the error handler of app.js 396-399.
\* The repository does not say which Express it runs on.
Rejected(r) ==
  \/ /\ pc' = [pc EXCEPT ![r] = "hung"]
     /\ loc' = [loc EXCEPT ![r] = <<>>]
     /\ res' = res
  \/ Respond(r, 500, [error |-> "Something went wrong!"])

\* redisClient.del(key)
RedisDel(key) == redis' = [redis EXCEPT ![key] = <<>>]

\* the request holding the row lock of product id, or 0
LockHolder(id) ==
  IF \E r \in Reqs : id \in DOMAIN tx[r].stock
  THEN CHOOSE r \in Reqs : id \in DOMAIN tx[r].stock
  ELSE 0

\* request r arrives as operation o; the slots are filled in order of arrival
Begin(r, o) ==
  /\ pc[r] = "idle"
  /\ \A q \in 1..(r - 1) : pc[q] # "idle"
  /\ op' = [op EXCEPT ![r] = o]
  /\ hist' = [hist EXCEPT ![r].sawAck = acked.mutation,
                          ![r].stock0 = [id \in DOMAIN products |-> products[id].stock],
                          ![r].active0 = {id \in DOMAIN products : products[id].is_active},
                          ![r].orders0 = DOMAIN orders,
                          ![r].sawOrder = acked.order,
                          ![r].price0 = [id \in DOMAIN products |-> products[id].price]]

\* history: the store mutation of r is committed
MarkCommitted(r) ==
  hist' = [hist EXCEPT ![r].committed = TRUE, ![r].cachedBefore = redis]

\* history: the get of r resolved, with the key's entry as it is now
MarkGot(r, key) == hist' = [hist EXCEPT ![r].got = <<[at |-> now, entry |-> redis[key]]>>]

\* history: the put of r is stored
MarkPut(r) == hist' = [hist EXCEPT ![r].put = <<now>>]

\* history: a cache command of r rejected
MarkCacheFailed(r, command) == hist' = [hist EXCEPT ![r].cacheFailed = @ \cup {command}]

\* `await redisClient.del(key)` inside the handler's try: when the command
\* rejects, the catch answers 500; otherwise the entry is gone and the handler
\* continues with onOk
DelStep(r, key, onOk) ==
  \/ /\ CacheFault
     /\ redis' = redis
     /\ hist' = [hist EXCEPT ![r].delIssued = @ \cup {key},
                             ![r].cacheFailed = @ \cup {"del"}]
     /\ acked' = acked
     /\ Respond(r, 500, [error |-> "Internal server error"])
  \/ /\ CacheOk
     /\ RedisDel(key)
     /\ hist' = [hist EXCEPT ![r].delIssued = @ \cup {key},
                             ![r].invalidated = @ \cup {key}]
     /\ onOk

---------------------------------------------------------------------------
(* GET /api/products  (list_products), app.js 65-97 *)

\* the columns the list query selects (app.js 80), with the row version
ListRow(row) ==
  [name |-> row.name, price |-> row.price, stock |-> row.stock,
   created_at |-> row.created_at, ver |-> row.ver]

\* SELECT ... FROM products WHERE is_active = true (app.js 79-84)
ActiveCatalog ==
  [i \in {j \in DOMAIN products : products[j].is_active} |-> ListRow(products[i])]

StartListProducts(r) ==
  /\ Begin(r, [kind |-> "list_products"])
  /\ Goto(r, "list_get", <<>>)
  /\ UNCHANGED <<storeVars, redis, tx, acked, faults, now, pool, socket>>

\* app.js 70-76 (and the catch, 93-96)
ListGet(r) ==
  /\ pc[r] = "list_get"
  /\ \/ /\ CacheFault
        /\ MarkCacheFailed(r, "get")
        /\ Respond(r, 500, [error |-> "Internal server error"])
     \/ /\ CacheOk
        /\ RedisGet(AllKey) # <<>>
        /\ MarkGot(r, AllKey)
        /\ Respond(r, 200, [source |-> "cache", data |-> JSONparse(RedisGet(AllKey)[1])])
     \/ /\ CacheOk
        /\ RedisGet(AllKey) = <<>>
        /\ MarkGot(r, AllKey)
        /\ Goto(r, "list_query", <<>>)
  /\ UNCHANGED <<storeVars, redis, op, tx, acked, now, pool, socket>>

\* app.js 79-84
ListQuery(r) ==
  /\ pc[r] = "list_query"
  /\ Goto(r, "list_setEx", [rows |-> ActiveCatalog])
  /\ UNCHANGED <<storeVars, redis, op, tx, hist, acked, faults, now, pool, socket>>

\* app.js 87-92 (and the catch, 93-96)
ListSetEx(r) ==
  /\ pc[r] = "list_setEx"
  /\ \/ /\ CacheFault
        /\ redis' = redis
        /\ MarkCacheFailed(r, "put")
        /\ Respond(r, 500, [error |-> "Internal server error"])
     \/ /\ CacheOk
        /\ RedisSetEx(r, AllKey, ListTTL, JSONstringifyRows(loc[r].rows))
        /\ MarkPut(r)
        /\ Respond(r, 200, [source |-> "database", data |-> loc[r].rows])
  /\ UNCHANGED <<storeVars, op, tx, acked, now, pool, socket>>

---------------------------------------------------------------------------
(* GET /api/products/:id  (get_product), app.js 100-134 *)

StartGetProduct(r, id) ==
  /\ Begin(r, [kind |-> "get_product", id |-> id])
  /\ Goto(r, "get_get", <<>>)
  /\ UNCHANGED <<storeVars, redis, tx, acked, faults, now, pool, socket>>

\* app.js 106-112 (and the catch, 130-133)
GetGet(r) ==
  /\ pc[r] = "get_get"
  /\ LET cacheKey == ProductKey(op[r].id) IN
     \/ /\ CacheFault
        /\ MarkCacheFailed(r, "get")
        /\ Respond(r, 500, [error |-> "Internal server error"])
     \/ /\ CacheOk
        /\ RedisGet(cacheKey) # <<>>
        /\ MarkGot(r, cacheKey)
        /\ Respond(r, 200, [source |-> "cache", data |-> JSONparse(RedisGet(cacheKey)[1])])
     \/ /\ CacheOk
        /\ RedisGet(cacheKey) = <<>>
        /\ MarkGot(r, cacheKey)
        /\ Goto(r, "get_query", <<>>)
  /\ UNCHANGED <<storeVars, redis, op, tx, acked, now, pool, socket>>

\* app.js 114-121: SELECT * FROM products WHERE id = $1 AND is_active = true
GetQuery(r) ==
  /\ pc[r] = "get_query"
  /\ LET id == op[r].id IN
     IF id \in DOMAIN products /\ products[id].is_active
     THEN Goto(r, "get_setEx", [row |-> products[id]])
     ELSE Respond(r, 404, [error |-> "Product not found"])
  /\ UNCHANGED <<storeVars, redis, op, tx, hist, acked, faults, now, pool, socket>>

\* app.js 124-129 (and the catch, 130-133)
GetSetEx(r) ==
  /\ pc[r] = "get_setEx"
  /\ \/ /\ CacheFault
        /\ redis' = redis
        /\ MarkCacheFailed(r, "put")
        /\ Respond(r, 500, [error |-> "Internal server error"])
     \/ /\ CacheOk
        /\ RedisSetEx(r, ProductKey(op[r].id), ProductTTL, JSONstringify(loc[r].row))
        /\ MarkPut(r)
        /\ Respond(r, 200, [source |-> "database", data |-> loc[r].row])
  /\ UNCHANGED <<storeVars, op, tx, acked, now, pool, socket>>

---------------------------------------------------------------------------
(* POST /api/products  (create_product), app.js 137-164 *)

NoTextWhenAbsent(body, f) == f \notin DOMAIN body

\* JavaScript !x for a text field and for a number field of the body
NoText(body, f) == f \notin DOMAIN body \/ body[f] = ""

NoNumber(body, f) == f \notin DOMAIN body \/ body[f] = 0

\* app.js 138-143: the validation, before any await
StartCreateProduct(r, body) ==
  /\ Begin(r, [kind |-> "create_product", body |-> body])
  /\ IF NoText(body, "name") \/ NoNumber(body, "price") \/ NoText(body, "category")
     THEN Respond(r, 400, [error |-> "Missing required fields"])
     ELSE Goto(r, "create_insert", <<>>)
  /\ UNCHANGED <<storeVars, redis, tx, acked, faults, now, pool, socket>>

\* app.js 146-151: INSERT INTO products ... RETURNING *; the sequence value is
\* taken whether or not the row passes the CHECKs
CreateInsert(r) ==
  /\ pc[r] = "create_insert"
  /\ LET body == op[r].body
         row == [name |-> body.name, price |-> body.price,
                 stock |-> IF NoNumber(body, "stock") THEN 0 ELSE body.stock,
                 is_active |-> TRUE, created_at |-> [date |-> now], ver |-> 0]
     IN /\ productSeq' = productSeq + 1
        /\ IF ProductChecks(row)
           THEN /\ products' = products @@ (productSeq :> row)
                /\ MarkCommitted(r)
                /\ Goto(r, "create_del", [id |-> productSeq, row |-> row])
           ELSE /\ products' = products
                /\ hist' = hist
                /\ Respond(r, 500, [error |-> "Internal server error"])
  /\ UNCHANGED <<orders, order_items, orderSeq, redis, op, tx, acked, faults, now, pool, socket>>

\* app.js 154-159 (and the catch, 160-163)
CreateDel(r) ==
  /\ pc[r] = "create_del"
  /\ DelStep(r, AllKey,
       /\ acked' = acked
       /\ Respond(r, 201, [message |-> "Product created successfully", data |-> loc[r].row]))
  /\ UNCHANGED <<storeVars, op, tx, now, pool, socket>>

---------------------------------------------------------------------------
(* PUT /api/products/:id  (update_product), app.js 167-202 *)

CoalesceReversed(body, f, old) == old

\* COALESCE($n, column): the body's value when the body has the field
Coalesce(body, f, old) == IF f \in DOMAIN body THEN body[f] ELSE old

StartUpdateProduct(r, id, body) ==
  /\ Begin(r, [kind |-> "update_product", id |-> id, body |-> body])
  /\ Goto(r, "update_query", <<>>)
  /\ UNCHANGED <<storeVars, redis, tx, acked, faults, now, pool, socket>>

UpdateNoRowFallsThrough(r) == Goto(r, "update_del_all", [row |-> [ver |-> 0]])

\* app.js 186-188: if (result.rows.length === 0) return the 404
UpdateNoRow(r) == Respond(r, 404, [error |-> "Product not found"])

\* app.js 172-188: UPDATE products SET ... WHERE id = $7 AND is_active = true
\* RETURNING *.  The statement waits for the row lock of an open order.
UpdateQuery(r) ==
  /\ pc[r] = "update_query"
  /\ LET id == op[r].id
         body == op[r].body
     IN IF id \in DOMAIN products /\ products[id].is_active
        THEN /\ LockHolder(id) = 0
             /\ LET old == products[id]
                    new == [name |-> Coalesce(body, "name", old.name),
                            price |-> Coalesce(body, "price", old.price),
                            stock |-> Coalesce(body, "stock", old.stock),
                            is_active |-> old.is_active,
                            created_at |-> old.created_at,
                            ver |-> old.ver + 1]
                IN IF ProductChecks(new)
                   THEN /\ products' = [products EXCEPT ![id] = new]
                        /\ MarkCommitted(r)
                        /\ Goto(r, "update_del_all", [row |-> new])
                   ELSE /\ products' = products
                        /\ hist' = hist
                        /\ Respond(r, 500, [error |-> "Internal server error"])
        ELSE /\ products' = products
             /\ hist' = hist
             /\ UpdateNoRow(r)
  /\ UNCHANGED <<productSeq, orders, order_items, orderSeq, redis, op, tx, acked, faults, now, pool, socket>>

\* app.js 191
UpdateDelAll(r) ==
  /\ pc[r] = "update_del_all"
  /\ DelStep(r, AllKey,
       /\ acked' = acked
       /\ Goto(r, "update_del_one", loc[r]))
  /\ UNCHANGED <<storeVars, op, tx, now, pool, socket>>

UpdateDelOneSkipped(r) ==
  /\ pc[r] = "update_del_one"
  /\ Respond(r, 200, [message |-> "Product updated successfully", data |-> loc[r].row])
  /\ UNCHANGED <<storeVars, redis, op, tx, hist, acked, faults, now, pool, socket>>

\* app.js 192-197 (and the catch, 198-201)
UpdateDelOne(r) ==
  /\ pc[r] = "update_del_one"
  /\ DelStep(r, ProductKey(op[r].id),
       /\ acked' = [acked EXCEPT !.mutation[op[r].id] = Max(@, loc[r].row.ver)]
       /\ Respond(r, 200, [message |-> "Product updated successfully", data |-> loc[r].row]))
  /\ UNCHANGED <<storeVars, op, tx, now, pool, socket>>

---------------------------------------------------------------------------
(* DELETE /api/products/:id  (delete_product), app.js 205-227 *)

StartDeleteProduct(r, id) ==
  /\ Begin(r, [kind |-> "delete_product", id |-> id])
  /\ Goto(r, "delete_query", <<>>)
  /\ UNCHANGED <<storeVars, redis, tx, acked, faults, now, pool, socket>>

DeleteQueryRemovingRow(r) ==
  /\ pc[r] = "delete_query"
  /\ LET id == op[r].id IN
     IF id \in DOMAIN products
     THEN /\ LockHolder(id) = 0
          /\ products' = [i \in DOMAIN products \ {id} |-> products[i]]
          /\ MarkCommitted(r)
          /\ Goto(r, "delete_del_all", [ver |-> products[id].ver + 1])
     ELSE /\ products' = products
          /\ hist' = hist
          /\ Respond(r, 404, [error |-> "Product not found"])
  /\ UNCHANGED <<productSeq, orders, order_items, orderSeq, redis, op, tx, acked, faults, now, pool, socket>>

\* app.js 209-216: UPDATE products SET is_active = false WHERE id = $1 RETURNING id
DeleteQuery(r) ==
  /\ pc[r] = "delete_query"
  /\ LET id == op[r].id IN
     IF id \in DOMAIN products
     THEN /\ LockHolder(id) = 0
          /\ products' = [products EXCEPT ![id].is_active = FALSE, ![id].ver = @ + 1]
          /\ MarkCommitted(r)
          /\ Goto(r, "delete_del_all", [ver |-> products[id].ver + 1])
     ELSE /\ products' = products
          /\ hist' = hist
          /\ Respond(r, 404, [error |-> "Product not found"])
  /\ UNCHANGED <<productSeq, orders, order_items, orderSeq, redis, op, tx, acked, faults, now, pool, socket>>

\* app.js 219
DeleteDelAll(r) ==
  /\ pc[r] = "delete_del_all"
  /\ DelStep(r, AllKey,
       /\ acked' = acked
       /\ Goto(r, "delete_del_one", loc[r]))
  /\ UNCHANGED <<storeVars, op, tx, now, pool, socket>>

\* app.js 220-222 (and the catch, 223-226)
DeleteDelOne(r) ==
  /\ pc[r] = "delete_del_one"
  /\ DelStep(r, ProductKey(op[r].id),
       /\ acked' = [acked EXCEPT !.mutation[op[r].id] = Max(@, loc[r].ver)]
       /\ Respond(r, 200, [message |-> "Product deleted successfully"]))
  /\ UNCHANGED <<storeVars, op, tx, now, pool, socket>>

---------------------------------------------------------------------------
(* POST /api/orders  (create_order), app.js 258-336 *)

\* the item the handler's loop is at
CurItem(r) == op[r].body.items[loc[r].i]

\* a row of products as transaction r sees it: the committed row, with the
\* stock r itself has written
TxRow(r, id) ==
  IF id \in DOMAIN tx[r].stock
  THEN [products[id] EXCEPT !.stock = tx[r].stock[id]]
  ELSE products[id]

\* the transaction whose row lock request r is waiting for, or 0
Waits(r) ==
  IF pc[r] = "order_stock" /\ LockHolder(CurItem(r).product_id) # r
  THEN LockHolder(CurItem(r).product_id)
  ELSE 0

RECURSIVE Reach(_, _, _)
Reach(a, target, n) ==
  IF a = 0 \/ n = 0 THEN FALSE
  ELSE IF a = target THEN TRUE
  ELSE Reach(Waits(a), target, n - 1)

DeadlockUndetected(r) == FALSE

\* PostgreSQL's deadlock detector: r waits in a cycle of row-lock waits
Deadlocked(r) == Reach(Waits(r), r, MaxReqs)

\* a statement of the transaction throws: the handler goes to its catch
Throw(r, message) == Goto(r, "order_rollback", [error |-> message])

\* app.js 259-263: the validation, before any await
StartCreateOrder(r, body) ==
  /\ Begin(r, [kind |-> "create_order", body |-> body])
  /\ IF \/ NoText(body, "customer_name")
        \/ NoText(body, "customer_email")
        \/ "items" \notin DOMAIN body
        \/ Len(body.items) = 0
     THEN Respond(r, 400, [error |-> "Missing required fields"])
     ELSE Goto(r, "order_connect", <<>>)
  /\ UNCHANGED <<storeVars, redis, tx, acked, faults, now, pool, socket>>

\* app.js 265-271: const client = await pool.connect(), which resolves when
\* the pool has a client for the request; BEGIN; let total_amount = 0.  BEGIN
\* touches no row and no other request.
OrderConnect(r) ==
  /\ pc[r] = "order_connect"
  /\ PoolFree
  /\ Acquire(r)
  /\ tx' = [tx EXCEPT ![r].open = TRUE]
  /\ Goto(r, "order_check", [total_amount |-> 0, i |-> 1])
  /\ UNCHANGED <<storeVars, redis, op, hist, acked, faults, now, socket>>

LineAmountAtClientPrice(product, item) ==
  (IF "price" \in DOMAIN item THEN item.price ELSE product.price) * item.quantity

\* app.js 288: product.price * item.quantity, product being the row read at 273
LineAmount(product, item) == product.price * item.quantity

\* app.js 272-289: one turn of the first loop
OrderCheck(r) ==
  /\ pc[r] = "order_check"
  /\ LET item == CurItem(r)
         id == item.product_id
         n == Len(op[r].body.items)
     IN IF ~(id \in DOMAIN products /\ products[id].is_active)
        THEN /\ hist' = hist
             /\ Throw(r, <<"not found", id>>)
        ELSE LET product == TxRow(r, id) IN
             IF product.stock < item.quantity
             THEN /\ hist' = hist
                  /\ Throw(r, <<"insufficient stock", id>>)
             ELSE /\ hist' = [hist EXCEPT ![r].read = Append(@, product.price)]
                  /\ Goto(r, IF loc[r].i = n THEN "order_insert" ELSE "order_check",
                          [total_amount |-> loc[r].total_amount + LineAmount(product, item),
                           i |-> IF loc[r].i = n THEN 1 ELSE loc[r].i + 1])
  /\ UNCHANGED <<storeVars, redis, op, tx, acked, faults, now, pool, socket>>

\* app.js 292-299: INSERT INTO orders ... 'pending' RETURNING *.  The sequence
\* value is taken whether or not the transaction commits.  req is history: the
\* request that inserted the row.
OrderInsert(r) ==
  /\ pc[r] = "order_insert"
  /\ orderSeq' = orderSeq + 1
  /\ LET order == [id |-> orderSeq,
                   customer_name |-> op[r].body.customer_name,
                   customer_email |-> op[r].body.customer_email,
                   total_amount |-> loc[r].total_amount,
                   status |-> "pending",
                   req |-> r]
     IN IF OrderChecks(order)
        THEN /\ tx' = [tx EXCEPT ![r].order = <<order>>]
             /\ Goto(r, "order_item", [order |-> order, i |-> 1])
        ELSE /\ tx' = tx
             /\ Throw(r, <<"check violation", 0>>)
  /\ UNCHANGED <<products, productSeq, orders, order_items, redis, op, hist, acked, faults, now, pool, socket>>

\* app.js 303-312: SELECT price FROM products WHERE id = $1, then INSERT INTO
\* order_items with productResult.rows[0].price.  The INSERT is seen by no
\* other request before COMMIT, so the two statements are one step.
OrderItem(r) ==
  /\ pc[r] = "order_item"
  /\ LET item == CurItem(r)
         id == item.product_id
     IN IF id \notin DOMAIN products
        THEN /\ tx' = tx
             /\ Throw(r, <<"no row", id>>)
        ELSE LET row == [order_id |-> loc[r].order.id, product_id |-> id,
                         quantity |-> item.quantity, price |-> TxRow(r, id).price]
             IN IF OrderItemChecks(row)
                THEN /\ tx' = [tx EXCEPT ![r].items = Append(@, row)]
                     /\ Goto(r, "order_stock", loc[r])
                ELSE /\ tx' = tx
                     /\ Throw(r, <<"check violation", id>>)
  /\ UNCHANGED <<storeVars, redis, op, hist, acked, faults, now, pool, socket>>

DecrementByOne(row, quantity) == [row EXCEPT !.stock = @ - 1]

\* app.js 315: SET stock = stock - $1
Decrement(row, quantity) == [row EXCEPT !.stock = @ - quantity]

\* app.js 314-318: UPDATE products SET stock = stock - $1 WHERE id = $2.
\* The statement takes the row lock (waiting for another order's commit or
\* rollback, and then using the row that transaction left), and is aborted
\* by CHECK (stock >= 0) or by the deadlock detector.
OrderStock(r) ==
  /\ pc[r] = "order_stock"
  /\ LET item == CurItem(r)
         id == item.product_id
         n == Len(op[r].body.items)
     IN IF LockHolder(id) \in {0, r}
        THEN LET new == Decrement(TxRow(r, id), item.quantity) IN
             IF ProductChecks(new)
             THEN /\ tx' = [tx EXCEPT ![r].stock = (id :> new.stock) @@ @]
                  /\ Goto(r, IF loc[r].i = n THEN "order_commit" ELSE "order_item",
                          [order |-> loc[r].order,
                           i |-> IF loc[r].i = n THEN 1 ELSE loc[r].i + 1])
             ELSE /\ tx' = tx
                  /\ Throw(r, <<"check violation", id>>)
        ELSE /\ Deadlocked(r)
             /\ tx' = tx
             /\ Throw(r, <<"deadlock detected", id>>)
  /\ UNCHANGED <<storeVars, redis, op, hist, acked, faults, now, pool, socket>>

OrderCommitNotAwaited(r) ==
  /\ pc[r] = "order_commit"
  /\ Goto(r, "order_del",
          [order |-> loc[r].order,
           vers |-> [id \in DOMAIN tx[r].stock |-> products[id].ver + 1]])
  /\ UNCHANGED <<storeVars, redis, op, tx, hist, acked, faults, now, pool, socket>>

OrderCommitRepricingItems(r) ==
  /\ pc[r] = "order_commit"
  /\ products' = [id \in DOMAIN products |->
                    IF id \in DOMAIN tx[r].stock
                    THEN [products[id] EXCEPT !.stock = tx[r].stock[id], !.ver = @ + 1]
                    ELSE products[id]]
  /\ orders' = orders @@ (tx[r].order[1].id :> tx[r].order[1])
  /\ order_items' = [k \in 1..Len(order_items) |->
                       [order_items[k] EXCEPT !.price = products[order_items[k].product_id].price]]
                    \o tx[r].items
  /\ tx' = [tx EXCEPT ![r] = NoTx]
  /\ MarkCommitted(r)
  /\ Goto(r, "order_del",
          [order |-> loc[r].order,
           vers |-> [id \in DOMAIN tx[r].stock |-> products[id].ver + 1]])
  /\ UNCHANGED <<productSeq, orderSeq, redis, op, acked, faults, now, pool, socket>>

\* app.js 320: COMMIT
OrderCommit(r) ==
  /\ pc[r] = "order_commit"
  /\ products' = [id \in DOMAIN products |->
                    IF id \in DOMAIN tx[r].stock
                    THEN [products[id] EXCEPT !.stock = tx[r].stock[id], !.ver = @ + 1]
                    ELSE products[id]]
  /\ orders' = orders @@ (tx[r].order[1].id :> tx[r].order[1])
  /\ order_items' = order_items \o tx[r].items
  /\ tx' = [tx EXCEPT ![r] = NoTx]
  /\ MarkCommitted(r)
  /\ Goto(r, "order_del",
          [order |-> loc[r].order,
           vers |-> [id \in DOMAIN tx[r].stock |-> products[id].ver + 1]])
  /\ UNCHANGED <<productSeq, orderSeq, redis, op, acked, faults, now, pool, socket>>

\* app.js 323-328 and 333-335: del('products:all'), then the 201 and the
\* release of the finally; a rejected del is thrown into the catch of 329
OrderDel(r) ==
  /\ pc[r] = "order_del"
  /\ \/ /\ CacheFault
        /\ redis' = redis
        /\ hist' = [hist EXCEPT ![r].delIssued = @ \cup {AllKey},
                                ![r].cacheFailed = @ \cup {"del"}]
        /\ acked' = acked
        /\ pool' = pool
        /\ Throw(r, <<"cache error", 0>>)
     \/ /\ CacheOk
        /\ RedisDel(AllKey)
        /\ hist' = [hist EXCEPT ![r].delIssued = @ \cup {AllKey},
                                ![r].invalidated = @ \cup {AllKey}]
        /\ acked' = [acked EXCEPT !.order =
                       [id \in DOMAIN acked.order |->
                          IF id \in DOMAIN loc[r].vers
                          THEN Max(acked.order[id], loc[r].vers[id])
                          ELSE acked.order[id]]]
        /\ Respond(r, 201, [message |-> "Order created successfully", data |-> loc[r].order])
        /\ Release(r)
  /\ UNCHANGED <<storeVars, op, tx, now, socket>>

OrderRollbackGeneric(r) ==
  /\ pc[r] = "order_rollback"
  /\ tx' = [tx EXCEPT ![r] = NoTx]
  /\ Respond(r, 500, [error |-> <<"Internal server error", 0>>])
  /\ Release(r)
  /\ UNCHANGED <<storeVars, redis, op, hist, acked, faults, now, socket>>

OrderRollbackInvalidating(r) ==
  /\ pc[r] = "order_rollback"
  /\ tx' = [tx EXCEPT ![r] = NoTx]
  /\ RedisDel(AllKey)
  /\ Respond(r, 500, [error |-> loc[r].error])
  /\ Release(r)
  /\ UNCHANGED <<storeVars, op, hist, acked, faults, now, socket>>

\* app.js 329-335: ROLLBACK, the 500 with the error's message, release
OrderRollback(r) ==
  /\ pc[r] = "order_rollback"
  /\ tx' = [tx EXCEPT ![r] = NoTx]
  /\ Respond(r, 500, [error |-> loc[r].error])
  /\ Release(r)
  /\ UNCHANGED <<storeVars, redis, op, hist, acked, faults, now, socket>>

\* app.js 265 with 26: pool.connect() rejects when no client has become free
\* within connectionTimeoutMillis; the await is outside the try of 267
OrderConnectTimeout(r) ==
  /\ pc[r] = "order_connect"
  /\ ~PoolFree
  /\ Rejected(r)
  /\ UNCHANGED <<storeVars, redis, op, tx, hist, acked, faults, now, pool, socket>>

\* app.js 330 and 333-335: the connection breaks and ROLLBACK rejects inside
\* the catch; the finally releases the client and the handler's promise
\* rejects.  The server discards the transaction of a connection that ended.
OrderRollbackFails(r) ==
  /\ pc[r] = "order_rollback"
  /\ tx' = [tx EXCEPT ![r] = NoTx]
  /\ Release(r)
  /\ Rejected(r)
  /\ UNCHANGED <<storeVars, redis, op, hist, acked, faults, now, socket>>

---------------------------------------------------------------------------
(* PATCH /api/orders/:id/status  (update_order_status), app.js 339-367 *)

\* app.js 340-347: validStatuses.includes(status), before any await; a body
\* without status has status undefined
StartUpdateStatus(r, id, body) ==
  /\ Begin(r, [kind |-> "update_order_status", id |-> id, body |-> body])
  /\ IF "status" \in DOMAIN body /\ body.status \in validStatuses
     THEN Goto(r, "status_query", <<>>)
     ELSE Respond(r, 400, [error |-> "Invalid status"])
  /\ UNCHANGED <<storeVars, redis, tx, acked, faults, now, pool, socket>>

StatusQueryOfAllOrders(r) ==
  /\ pc[r] = "status_query"
  /\ LET id == op[r].id IN
     IF id \in DOMAIN orders
     THEN /\ orders' = [o \in DOMAIN orders |-> [orders[o] EXCEPT !.status = op[r].body.status]]
          /\ hist' = [hist EXCEPT ![r].committed = TRUE, ![r].before = <<orders[id]>>]
          /\ Respond(r, 200, [message |-> "Order status updated successfully",
                              data |-> [orders[id] EXCEPT !.status = op[r].body.status]])
     ELSE /\ orders' = orders
          /\ hist' = hist
          /\ Respond(r, 404, [error |-> "Order not found"])
  /\ UNCHANGED <<products, productSeq, order_items, orderSeq, redis, op, tx, acked, faults, now, pool, socket>>

\* app.js 350-366: UPDATE orders SET status = $1 ... WHERE id = $2 RETURNING *.
\* A row an open transaction has inserted is not yet there for the statement.
StatusQuery(r) ==
  /\ pc[r] = "status_query"
  /\ LET id == op[r].id IN
     IF id \in DOMAIN orders
     THEN LET new == [orders[id] EXCEPT !.status = op[r].body.status] IN
          IF OrderStatusChecks(new)
          THEN /\ orders' = [orders EXCEPT ![id] = new]
               /\ hist' = [hist EXCEPT ![r].committed = TRUE, ![r].before = <<orders[id]>>]
               /\ Respond(r, 200, [message |-> "Order status updated successfully",
                                   data |-> new])
          ELSE /\ orders' = orders
               /\ hist' = hist
               /\ Respond(r, 500, [error |-> "Internal server error"])
     ELSE /\ orders' = orders
          /\ hist' = hist
          /\ Respond(r, 404, [error |-> "Order not found"])
  /\ UNCHANGED <<products, productSeq, order_items, orderSeq, redis, op, tx, acked, faults, now, pool, socket>>

---------------------------------------------------------------------------
(* GET /api/stats  (get_stats), app.js 370-388 *)

\* app.js 379-381: FROM orders o CROSS JOIN products p WHERE p.is_active = true,
\* as pairs of an order id and a product id
StatsJoin ==
  {<<o, p>> : o \in DOMAIN orders, p \in {i \in DOMAIN products : products[i].is_active}}

RECURSIVE SumTotalAmount(_)
\* app.js 376: SUM(o.total_amount) over the rows of the join
SumTotalAmount(rows) ==
  IF rows = {} THEN 0
  ELSE LET j == CHOOSE x \in rows : TRUE
       IN orders[j[1]].total_amount + SumTotalAmount(rows \ {j})

\* app.js 373-378: the select list.  COUNT(DISTINCT ...) counts the different
\* non-null values, and COALESCE(SUM(...), 0) is 0 over no rows.  The driver
\* hands the counts and the sum over as the decimal strings of these numbers.
StatsRow ==
  [total_orders |-> Cardinality({j[1] : j \in StatsJoin}),
   total_products |-> Cardinality({j[2] : j \in StatsJoin}),
   total_revenue |-> SumTotalAmount(StatsJoin),
   pending_orders |-> Cardinality({j[1] : j \in {x \in StatsJoin : orders[x[1]].status = "pending"}})]

StartGetStats(r) ==
  /\ Begin(r, [kind |-> "get_stats"])
  /\ Goto(r, "stats_query", <<>>)
  /\ UNCHANGED <<storeVars, redis, tx, acked, faults, now, pool, socket>>

\* app.js 372-383: the query and res.json({ data: stats.rows[0] })
StatsQuery(r) ==
  /\ pc[r] = "stats_query"
  /\ Respond(r, 200, [data |-> StatsRow])
  /\ UNCHANGED <<storeVars, redis, op, tx, hist, acked, faults, now, pool, socket>>

---------------------------------------------------------------------------
(* Specifications *)

ListSteps(r) == ListGet(r) \/ ListQuery(r) \/ ListSetEx(r)

GetSteps(r) == GetGet(r) \/ GetQuery(r) \/ GetSetEx(r)

CreateSteps(r) == CreateInsert(r) \/ CreateDel(r)

UpdateSteps(r) == UpdateQuery(r) \/ UpdateDelAll(r) \/ UpdateDelOne(r)

DeleteSteps(r) == DeleteQuery(r) \/ DeleteDelAll(r) \/ DeleteDelOne(r)

OrderSteps(r) ==
  \/ OrderConnect(r) \/ OrderCheck(r) \/ OrderInsert(r)
  \/ OrderItem(r) \/ OrderStock(r) \/ OrderCommit(r)
  \/ OrderDel(r) \/ OrderRollback(r)

\* every operation on the catalog and create_order, MixReqs concurrent requests
Next ==
  \E r \in 1..MixReqs :
    \/ StartListProducts(r)
    \/ \E id \in IdParams : StartGetProduct(r, id)
    \/ \E body \in CreateBodies : StartCreateProduct(r, body)
    \/ \E id \in IdParams, body \in UpdateBodies : StartUpdateProduct(r, id, body)
    \/ \E id \in IdParams : StartDeleteProduct(r, id)
    \/ \E body \in OrderBodies : StartCreateOrder(r, body)
    \/ ListSteps(r) \/ GetSteps(r) \/ CreateSteps(r) \/ UpdateSteps(r)
    \/ DeleteSteps(r) \/ OrderSteps(r)

Spec == Init /\ [][Next]_vars

\* concurrent orders only, OrderReqs of them
NextOrders ==
  \E r \in 1..OrderReqs :
    \/ \E body \in ContendingOrderBodies : StartCreateOrder(r, body)
    \/ OrderSteps(r)

SpecOrders == Init /\ [][NextOrders]_vars

\* catalog reads against update_product and delete_product of product 1,
\* CatalogReqs concurrent requests
NextCatalog ==
  \E r \in 1..CatalogReqs :
    \/ StartListProducts(r)
    \/ StartGetProduct(r, 1)
    \/ StartUpdateProduct(r, 1, [price |-> 15])
    \/ StartDeleteProduct(r, 1)
    \/ ListSteps(r) \/ GetSteps(r) \/ UpdateSteps(r) \/ DeleteSteps(r)

SpecCatalog == Init /\ [][NextCatalog]_vars

\* catalog reads while the time to live of the cached entries runs out,
\* ExpiryReqs concurrent requests
NextExpiry ==
  \/ Tick
  \/ \E r \in 1..ExpiryReqs :
       \/ StartListProducts(r)
       \/ StartGetProduct(r, 1)
       \/ ListSteps(r) \/ GetSteps(r)

SpecExpiry == Init /\ [][NextExpiry]_vars

\* catalog mutations against cached reads of products 1 and 2, InvalReqs
\* concurrent requests
NextInval ==
  \E r \in 1..InvalReqs :
    \/ StartListProducts(r)
    \/ \E id \in {1, 2} : StartGetProduct(r, id)
    \/ StartCreateProduct(r, [name |-> "cable", category |-> "acc", price |-> 30])
    \/ StartUpdateProduct(r, 1, [price |-> 15])
    \/ StartDeleteProduct(r, 1)
    \/ ListSteps(r) \/ GetSteps(r) \/ CreateSteps(r) \/ UpdateSteps(r) \/ DeleteSteps(r)

SpecInval == Init /\ [][NextInval]_vars

\* catalog reads against create_order of product 1, OrderCacheReqs concurrent
\* requests
NextOrderCache ==
  \E r \in 1..OrderCacheReqs :
    \/ StartListProducts(r)
    \/ StartGetProduct(r, 1)
    \/ StartCreateOrder(r, [customer_name |-> "ann", customer_email |-> "a@x",
                            items |-> <<Item(1, 2)>>])
    \/ ListSteps(r) \/ GetSteps(r) \/ OrderSteps(r)

SpecOrderCache == Init /\ [][NextOrderCache]_vars

\* update_order_status against create_order, StatusReqs concurrent requests
NextStatus ==
  \E r \in 1..StatusReqs :
    \/ StartCreateOrder(r, [customer_name |-> "ann", customer_email |-> "a@x",
                            items |-> <<Item(1, 2)>>])
    \/ OrderSteps(r)
    \/ \E id \in OrderIdParams, body \in StatusBodies : StartUpdateStatus(r, id, body)
    \/ StatusQuery(r)

SpecStatus == Init /\ [][NextStatus]_vars

\* get_stats against create_order and delete_product of both products,
\* StatsReqs concurrent requests
NextStats ==
  \E r \in 1..StatsReqs :
    \/ StartGetStats(r)
    \/ StatsQuery(r)
    \/ StartCreateOrder(r, [customer_name |-> "ann", customer_email |-> "a@x",
                            items |-> <<Item(1, 2)>>])
    \/ OrderSteps(r)
    \/ \E id \in {1, 2} : StartDeleteProduct(r, id)
    \/ DeleteSteps(r)

SpecStats == Init /\ [][NextStats]_vars

---------------------------------------------------------------------------
(* The cache client's reconnection delay, app.js 30-38 *)

Min(a, b) == IF a <= b THEN a ELSE b

reconnectStrategyUncapped(retries) == retries * 50

\* app.js 34: (retries) => Math.min(retries * 50, 500), in milliseconds
reconnectStrategy(retries) == Min(retries * 50, 500)

\* the retry counts the client hands to reconnectStrategy: 0 for the first
\* attempt after the connection is lost, one more for every further attempt
RetryCounts == 0..MaxRetries

\* two retry counts, in either order, no delay computed yet
InitReconnect ==
  /\ InitApp
  /\ socket \in [retries : RetryCounts \X RetryCounts, delay : {<<>>}]

\* the client calls reconnectStrategy for each of the retry counts
Reconnect ==
  /\ socket.retries # <<>>
  /\ socket.delay = <<>>
  /\ socket' = [socket EXCEPT
                  !.delay = [i \in DOMAIN socket.retries |->
                               reconnectStrategy(socket.retries[i])]]
  /\ UNCHANGED <<storeVars, redis, now, procVars, acked, faults, pool>>

NextReconnect == Reconnect

SpecReconnect == InitReconnect /\ [][NextReconnect]_vars

\* orders of products 1 and 2 that name them in opposite order: every request
\* takes the row locks in the order of its lines.  Node runs every callback
\* that is ready and PostgreSQL answers every statement it can execute, so a
\* request that can take a step eventually takes one.
CrossingOrderBodies ==
  { [customer_name |-> "ann", customer_email |-> "a@x", items |-> <<Item(1, 2), Item(2, 1)>>],
    [customer_name |-> "ann", customer_email |-> "a@x", items |-> <<Item(2, 1), Item(1, 2)>>] }

NextCross ==
  \E r \in 1..CrossReqs :
    \/ \E body \in CrossingOrderBodies : StartCreateOrder(r, body)
    \/ OrderSteps(r)

SpecCross ==
  /\ Init /\ [][NextCross]_vars
  /\ \A r \in 1..CrossReqs : WF_vars(OrderSteps(r))

\* create_order on a pool that other handlers load and with connections that
\* break, PoolReqs concurrent requests
NextPool ==
  \/ OthersChange
  \/ \E r \in 1..PoolReqs :
       \/ \E id \in {1, NoSuchId} :
            StartCreateOrder(r, [customer_name |-> "ann", customer_email |-> "a@x",
                                 items |-> <<Item(id, 3)>>])
       \/ OrderSteps(r)
       \/ OrderConnectTimeout(r)
       \/ OrderRollbackFails(r)

SpecPool == Init /\ [][NextPool]_vars

\* create_order with and without client-supplied prices, PricingReqs concurrent
\* requests
NextPricing ==
  \E r \in 1..PricingReqs :
    \/ \E body \in PricedOrderBodies : StartCreateOrder(r, body)
    \/ OrderSteps(r)

SpecPricing == Init /\ [][NextPricing]_vars

---------------------------------------------------------------------------
(* Quantities the claims speak of *)

RECURSIVE Qty(_, _)
\* the quantity of product id that the lines of an order body ask for
Qty(items, id) ==
  IF items = <<>> THEN 0
  ELSE (IF Head(items).product_id = id THEN Head(items).quantity ELSE 0)
       + Qty(Tail(items), id)

IsOrder(r) == op[r].kind = "create_order"

Done(r) == pc[r] = "done"

Status(r) == res[r][1].status

RECURSIVE CommittedQty(_, _)
\* the quantity of product id in the orders of requests 1..n that committed
CommittedQty(n, id) ==
  IF n = 0 THEN 0
  ELSE (IF IsOrder(n) /\ hist[n].committed THEN Qty(op[n].body.items, id) ELSE 0)
       + CommittedQty(n - 1, id)

\* an update_product aimed at product id has arrived
UpdateTouched(id) ==
  \E r \in Reqs : op[r].kind = "update_product" /\ op[r].id = id

---------------------------------------------------------------------------
(* C1 *)

\* requests a (the earlier) and b both order product id, and together ask for
\* more than its stock was when a arrived
Oversell(a, b, id) ==
  /\ a < b /\ IsOrder(a) /\ IsOrder(b)
  /\ id \in DOMAIN hist[a].stock0
  /\ Qty(op[a].body.items, id) > 0 /\ Qty(op[b].body.items, id) > 0
  /\ Qty(op[a].body.items, id) + Qty(op[b].body.items, id) > hist[a].stock0[id]

\* C1: of two create_order requests that contain the same product and together
\* ask for more than the product's stock at the start, at most one commits,
\* in every interleaving of their statements.
C1_AtMostOneCommits ==
  \A a, b \in Reqs : \A id \in DOMAIN products :
    Oversell(a, b, id) => ~(hist[a].committed /\ hist[b].committed)

\* both requests passed the stock check (app.js 284) before either decremented:
\* one committed and answered 201, the other was stopped by CHECK (stock >= 0)
\* at its UPDATE and answered 500 after its rollback
C1_Witness ==
  \E a, b \in Reqs : \E id \in DOMAIN products :
    /\ Oversell(a, b, id)
    /\ Done(a) /\ Done(b)
    /\ \E w, l \in {a, b} :
         /\ w # l
         /\ Status(w) = 201 /\ hist[w].committed
         /\ Status(l) = 500 /\ ~hist[l].committed
         /\ res[l][1].body.error = <<"check violation", id>>

---------------------------------------------------------------------------
(* C2 *)

\* C2: in every committed store state, after any interleaving of create_order,
\* create_product, update_product and delete_product, every product has
\* stock >= 0 and price >= 0.
C2_StockAndPriceNonNegative ==
  \A id \in DOMAIN products : products[id].stock >= 0 /\ products[id].price >= 0

\* requests that would have stored a negative price or stock were refused,
\* next to an order that did decrement a stock
C2_Witness ==
  /\ \E r \in Reqs :
       /\ Done(r) /\ Status(r) = 500
       /\ op[r].kind \in {"update_product", "create_product"}
       /\ \/ ("price" \in DOMAIN op[r].body /\ op[r].body.price < 0)
          \/ ("stock" \in DOMAIN op[r].body /\ op[r].body.stock < 0)
  /\ \E r \in Reqs : Done(r) /\ IsOrder(r) /\ Status(r) = 201
  /\ C2_StockAndPriceNonNegative

---------------------------------------------------------------------------
(* C3 *)

\* C3: a product no update_product touches has, whatever the concurrent
\* create_order requests have done, a stock equal to its initial stock minus the
\* quantities of that product in the orders that committed: no decrement is
\* lost and no rolled-back order contributes one.
C3_StockIsInitialMinusCommitted ==
  \A id \in DOMAIN SeedProducts :
    ~UpdateTouched(id) =>
      products[id].stock = SeedProducts[id].stock - CommittedQty(MaxReqs, id)

\* both orders have finished: one committed its decrement of product 1; the
\* other had decremented product 2, was then stopped at product 1 and rolled
\* back, and product 2 has its initial stock
C3_Witness ==
  \E a, c \in Reqs :
    /\ IsOrder(a) /\ IsOrder(c) /\ Done(a) /\ Done(c)
    /\ hist[a].committed /\ Qty(op[a].body.items, 1) > 0
    /\ ~hist[c].committed
    /\ op[c].body.items[1].product_id = 2
    /\ res[c][1].body.error = <<"check violation", 1>>
    /\ products[1].stock = SeedProducts[1].stock - Qty(op[a].body.items, 1)
    /\ products[2].stock = SeedProducts[2].stock

---------------------------------------------------------------------------
(* C4 *)

\* the committed order_items rows of order o, in insertion order
ItemsOf(o) ==
  LET OfOrder(row) == row.order_id = o IN SelectSeq(order_items, OfOrder)

RECURSIVE ItemsTotal(_)
\* the sum of price * quantity over a sequence of order_items rows
ItemsTotal(rows) ==
  IF rows = <<>> THEN 0
  ELSE Head(rows).price * Head(rows).quantity + ItemsTotal(Tail(rows))

\* C4: every committed order's total_amount is the sum of price * quantity over
\* its OrderItem rows, and each OrderItem's price is the price the stock-check
\* step read, also when an update_product changes a price while the order's
\* transaction is open.
C4_TotalIsSumOfItems ==
  \A o \in DOMAIN orders :
    /\ orders[o].total_amount = ItemsTotal(ItemsOf(o))
    /\ orders[o].req \in Reqs =>
         [k \in 1..Len(ItemsOf(o)) |-> ItemsOf(o)[k].price] = hist[orders[o].req].read

---------------------------------------------------------------------------
(* C5 *)

\* C5: when create_order answers with an error after opening its transaction,
\* the transaction is rolled back and nothing of the request is committed: no
\* Order row, no OrderItem row, no stock decrement.
C5_ErrorLeavesNothingCommitted ==
  \A r \in Reqs :
    (IsOrder(r) /\ Done(r) /\ Status(r) = 500) =>
      /\ ~tx[r].open
      /\ ~hist[r].committed
      /\ \A o \in DOMAIN orders : orders[o].req # r

---------------------------------------------------------------------------
(* C6 *)

\* C6: a get_product or list_products that starts after an update_product or
\* delete_product of product X was answered with success returns, for X, data
\* at least as new as that mutation (a deleted X is absent), also from the cache
\* and also when another read was in flight during the mutation.
C6_ReadsReturnPostMutationData ==
  \A r \in Reqs :
    (Done(r) /\ Status(r) = 200) =>
      /\ op[r].kind = "get_product" =>
           res[r][1].body.data.ver >= hist[r].sawAck[op[r].id]
      /\ op[r].kind = "list_products" =>
           \A id \in DOMAIN res[r][1].body.data :
             res[r][1].body.data[id].ver >= hist[r].sawAck[id]

---------------------------------------------------------------------------
(* C7 *)

Mutating(r) ==
  op[r].kind \in {"create_product", "update_product", "delete_product", "create_order"}

\* C7: a request has sent a cache invalidation only if its store mutation is
\* already committed: every del comes after the commit that made it necessary,
\* and a request whose mutation did not commit sends none.
C7_InvalidationOnlyAfterCommit ==
  \A r \in Reqs : hist[r].delIssued # {} => hist[r].committed

\* one request committed and then invalidated products:all; another mutation
\* found no row or was refused by a CHECK and ended without any del
C7_Witness ==
  /\ \E r \in Reqs :
       Mutating(r) /\ Done(r) /\ hist[r].committed /\ AllKey \in hist[r].invalidated
  /\ \E r \in Reqs :
       /\ Mutating(r) /\ Done(r) /\ Status(r) \in {404, 500}
       /\ ~hist[r].committed /\ hist[r].delIssued = {}

---------------------------------------------------------------------------
(* C8 *)

\* the cache keys the mutation of r makes stale (spec 4.2 step 7, 4.3)
AffectedKeys(r) ==
  IF op[r].kind \in {"update_product", "delete_product"}
  THEN {AllKey, ProductKey(op[r].id)}
  ELSE {AllKey}

\* C8: a mutating operation ends either with success, its mutation committed
\* and the affected keys invalidated, or with failure and nothing committed; it
\* never reports failure after its mutation has committed.
C8_SuccessOrNoEffect ==
  \A r \in Reqs :
    (Mutating(r) /\ Done(r)) =>
      \/ /\ Status(r) \in {200, 201}
         /\ hist[r].committed
         /\ AffectedKeys(r) \subseteq hist[r].invalidated
      \/ /\ Status(r) \notin {200, 201}
         /\ ~hist[r].committed

---------------------------------------------------------------------------
(* C9 *)

\* C9: a list_products or get_product whose cache get failed answers as on a
\* miss, with the store's data (or the store's not-found), never with an error.
C9_FailedGetIsAMiss ==
  \A r \in Reqs :
    (Done(r) /\ "get" \in hist[r].cacheFailed) =>
      \/ Status(r) = 200 /\ res[r][1].body.source = "database"
      \/ Status(r) = 404 /\ op[r].kind = "get_product"

---------------------------------------------------------------------------
(* C10 *)

\* C10: a read or mutation whose cache put or invalidate failed still answers
\* with its normal success.
C10_FailedPutOrDelIsSwallowed ==
  \A r \in Reqs :
    (Done(r) /\ hist[r].cacheFailed \cap {"put", "del"} # {}) =>
      Status(r) \in {200, 201}

---------------------------------------------------------------------------
(* C11 *)

\* request r is an order of one line, for product id
SingleLine(r, id) ==
  /\ IsOrder(r)
  /\ Len(op[r].body.items) = 1
  /\ op[r].body.items[1].product_id = id

\* C11: when two concurrent one-line create_order requests for the same product
\* each fit the product's stock but not both, then, once both have answered
\* (the cache working), one has committed with total_amount = price * quantity
\* and the stock reduced by its quantity, and the other has failed with the
\* insufficient-stock error naming the product, in every interleaving.
C11_LoserGetsInsufficientStock ==
  \A a, b \in Reqs : \A id \in DOMAIN SeedProducts :
    ( /\ Oversell(a, b, id)
      /\ SingleLine(a, id) /\ SingleLine(b, id)
      /\ Qty(op[a].body.items, id) <= hist[a].stock0[id]
      /\ Qty(op[b].body.items, id) <= hist[a].stock0[id]
      /\ Done(a) /\ Done(b)
      /\ hist[a].cacheFailed = {} /\ hist[b].cacheFailed = {} )
    => \E w, l \in {a, b} :
         /\ w # l
         /\ Status(w) = 201
         /\ res[w][1].body.data.total_amount
              = SeedProducts[id].price * Qty(op[w].body.items, id)
         /\ products[id].stock = hist[a].stock0[id] - Qty(op[w].body.items, id)
         /\ Status(l) = 500
         /\ res[l][1].body.error = <<"insufficient stock", id>>

---------------------------------------------------------------------------
(* C12 *)

\* the body of r passes the validation of app.js 261
ValidOrder(r) ==
  /\ IsOrder(r)
  /\ ~NoText(op[r].body, "customer_name")
  /\ ~NoText(op[r].body, "customer_email")
  /\ "items" \in DOMAIN op[r].body
  /\ Len(op[r].body.items) > 0

\* the positions of the item list of r whose product did not exist or was
\* inactive when r arrived
MissingAt(r) ==
  {k \in 1..Len(op[r].body.items) : op[r].body.items[k].product_id \notin hist[r].active0}

FirstMissing(r) == CHOOSE k \in MissingAt(r) : \A j \in MissingAt(r) : k <= j

\* nothing of request r is in the store
NothingCommitted(r) ==
  /\ ~hist[r].committed
  /\ \A o \in DOMAIN orders : orders[o].req # r

\* C12 as stated: every create_order whose item list contains, at any position,
\* a product that does not exist or is inactive fails with the not-found error
\* and leaves orders, order items and stocks unchanged.
C12_MissingProductGivesNotFound ==
  \A r \in Reqs :
    (ValidOrder(r) /\ Done(r) /\ MissingAt(r) # {}) =>
      /\ Status(r) = 500
      /\ res[r][1].body.error[1] = "not found"
      /\ NothingCommitted(r)

\* C12, amended: such a request fails and commits nothing; its error is the
\* not-found error of the first missing product of the list, unless an earlier
\* line fails first, with the not-found error of its product (deleted
\* meanwhile) or with the insufficient-stock error of its product.
C12_MissingProductFailsAtFirstBadLine ==
  \A r \in Reqs :
    (ValidOrder(r) /\ Done(r) /\ MissingAt(r) # {}) =>
      /\ Status(r) = 500
      /\ NothingCommitted(r)
      /\ \E k \in 1..FirstMissing(r) :
           LET id == op[r].body.items[k].product_id IN
           \/ res[r][1].body.error = <<"not found", id>>
           \/ k < FirstMissing(r) /\ res[r][1].body.error = <<"insufficient stock", id>>

\* an order whose second line names a product that does not exist was answered
\* with the not-found error of that product, and no stock has moved
C12_Witness ==
  \E r \in Reqs :
    /\ ValidOrder(r) /\ Done(r)
    /\ MissingAt(r) = {2}
    /\ Status(r) = 500
    /\ res[r][1].body.error = <<"not found", op[r].body.items[2].product_id>>
    /\ NothingCommitted(r)
    /\ \A id \in DOMAIN SeedProducts : products[id].stock = SeedProducts[id].stock

---------------------------------------------------------------------------
(* C13 *)

\* the columns of a products row (without the history field ver)
RealRow(row) ==
  [name |-> row.name, price |-> row.price, stock |-> row.stock, is_active |-> row.is_active]

\* request r is a delete_product of a product that was already inactive when
\* r arrived
DeleteOfInactive(r) ==
  /\ op[r].kind = "delete_product"
  /\ op[r].id \in DOMAIN hist[r].stock0
  /\ op[r].id \notin hist[r].active0

\* the statement of a delete_product of an inactive product leaves the store
\* as it is
DeleteOfInactiveKeepsStore ==
  \A r \in Reqs :
    ( /\ pc[r] = "delete_query" /\ pc'[r] # "delete_query"
      /\ op[r].id \in DOMAIN products
      /\ ~products[op[r].id].is_active )
    => /\ [id \in DOMAIN products' |-> RealRow(products'[id])]
            = [id \in DOMAIN products |-> RealRow(products[id])]
       /\ UNCHANGED <<orders, order_items>>

\* C13: delete_product of an already inactive product reports success, not an
\* error, and leaves the product's row (active flag, name, price, stock) as it
\* was, so that two delete_product leave the store as one does.
C13_DeleteOfInactiveIsNoOp ==
  /\ [](\A r \in Reqs : (DeleteOfInactive(r) /\ Done(r)) => Status(r) = 200)
  /\ [][DeleteOfInactiveKeepsStore]_vars

\* the same with the cache working for the request: the part of C13 that
\* does not depend on how a rejected del is handled
DeleteOfInactiveIsNoOpCacheWorking ==
  /\ [](\A r \in Reqs :
          (DeleteOfInactive(r) /\ Done(r) /\ hist[r].cacheFailed = {}) => Status(r) = 200)
  /\ [][DeleteOfInactiveKeepsStore]_vars

---------------------------------------------------------------------------
(* C14 *)

\* the times to live the claim names: 300 s for products:all, 600 s for a product
ClaimedTTL(key) == IF key = AllKey THEN 300 ELSE 600

\* the key a catalog read looks up
ReadKey(r) == IF op[r].kind = "list_products" THEN AllKey ELSE ProductKey(op[r].id)

\* the last put of key has not been invalidated and its time to live has not
\* elapsed at time t
Unexpired(entry, key, t) == entry # <<>> /\ t < entry[1].at + ClaimedTTL(key)

\* the get of a catalog read resolves in this step
GetResolves(r) ==
  /\ pc[r] \in {"list_get", "get_get"}
  /\ pc'[r] # pc[r]
  /\ faults' = faults

\* C14: a get that follows a put of the key, with no later put or invalidate of
\* the key, returns the value put while the time to live (300 s for
\* products:all, 600 s for product:{id}) has not elapsed, and is a miss, which
\* sends the read to the store, once it has elapsed or when nothing is stored.
C14_GetReturnsPutValueUntilTTL ==
  [][\A r \in Reqs :
       GetResolves(r) =>
         IF Unexpired(redis[ReadKey(r)], ReadKey(r), now)
         THEN /\ pc'[r] = "done"
              /\ res'[r][1].status = 200
              /\ res'[r][1].body = [source |-> "cache",
                                    data |-> JSONparse(redis[ReadKey(r)][1].value)]
         ELSE pc'[r] \in {"list_query", "get_query"}]_vars

\* one read was served the cached product within its 600 s, and a later read of
\* the same key found the entry expired and was served by the store
C14_Witness ==
  \E p, q \in Reqs :
    /\ op[p].kind = "get_product" /\ op[q].kind = "get_product"
    /\ Done(p) /\ Done(q)
    /\ hist[p].got # <<>> /\ hist[q].got # <<>>
    /\ Unexpired(hist[p].got[1].entry, ReadKey(p), hist[p].got[1].at)
    /\ hist[p].got[1].at > 0
    /\ Status(p) = 200 /\ res[p][1].body.source = "cache"
    /\ hist[q].got[1].entry = hist[p].got[1].entry
    /\ ~Unexpired(hist[q].got[1].entry, ReadKey(q), hist[q].got[1].at)
    /\ Status(q) = 200 /\ res[q][1].body.source = "database"

---------------------------------------------------------------------------
(* C15 *)

\* the five statuses the claims enumerate
ClaimedStatuses == {"pending", "processing", "shipped", "delivered", "cancelled"}

IsStatusUpdate(r) == op[r].kind = "update_order_status"

\* the status the request asks for, "" when the body has none
AskedStatus(r) == IF "status" \in DOMAIN op[r].body THEN op[r].body.status ELSE ""

\* C15: for every order that exists and every status s of the five,
\* update_order_status(order, s) succeeds and sets the order's status to s
\* whatever the status was: the request is answered 200 with the order at
\* status s, and its statement leaves the order at s.
C15_AnyStatusToAnyStatus ==
  /\ [](\A r \in Reqs :
          ( /\ IsStatusUpdate(r) /\ Done(r)
            /\ AskedStatus(r) \in ClaimedStatuses
            /\ op[r].id \in hist[r].orders0 )
          => /\ Status(r) = 200
             /\ res[r][1].body.data.id = op[r].id
             /\ res[r][1].body.data.status = AskedStatus(r))
  /\ [][\A r \in Reqs :
          (pc[r] = "status_query" /\ pc'[r] # pc[r] /\ op[r].id \in DOMAIN orders)
          => orders'[op[r].id] = [orders[op[r].id] EXCEPT !.status = AskedStatus(r)]]_vars

\* the delivered sample order was moved back to pending by one request and
\* then from pending to pending by another
C15_Witness ==
  \E a, b \in Reqs :
    /\ IsStatusUpdate(a) /\ Done(a) /\ Status(a) = 200
    /\ hist[a].before # <<>> /\ hist[a].before[1].status = "delivered"
    /\ AskedStatus(a) = "pending"
    /\ IsStatusUpdate(b) /\ Done(b) /\ Status(b) = 200
    /\ op[b].id = op[a].id
    /\ hist[b].before # <<>> /\ hist[b].before[1].status = "pending"
    /\ AskedStatus(b) = "pending"
    /\ orders[op[a].id].status = "pending"

---------------------------------------------------------------------------
(* C16 *)

\* a step of request r, which is or becomes an update_order_status
StatusStep(r) == pc'[r] # pc[r] /\ op'[r].kind = "update_order_status"

\* C16: update_order_status with a status outside the five answers the
\* validation error (400), and with a status of the five and an order id that
\* no order has answers the not-found error (404); no step of such a request
\* changes an order's status or anything else in the store.
C16_BadStatusOrIdChangesNothing ==
  /\ [](\A r \in Reqs :
          (IsStatusUpdate(r) /\ Done(r)) =>
            /\ AskedStatus(r) \notin ClaimedStatuses => Status(r) = 400
            /\ (AskedStatus(r) \in ClaimedStatuses /\ op[r].id \notin DOMAIN orders)
                 => Status(r) = 404)
  /\ [][\A r \in Reqs :
          ( /\ StatusStep(r)
            /\ \/ "status" \notin DOMAIN op'[r].body
               \/ op'[r].body.status \notin ClaimedStatuses
               \/ op'[r].id \notin DOMAIN orders )
          => UNCHANGED storeVars]_vars

\* next to an order that exists, one request with an unknown status was
\* answered 400 and one for an order id that no order has was answered 404
C16_Witness ==
  /\ orders # <<>>
  /\ \E r \in Reqs :
       /\ IsStatusUpdate(r) /\ Done(r) /\ Status(r) = 400
       /\ AskedStatus(r) = "refunded" /\ op[r].id \in DOMAIN orders
  /\ \E r \in Reqs :
       /\ IsStatusUpdate(r) /\ Done(r) /\ Status(r) = 404
       /\ AskedStatus(r) \in ClaimedStatuses /\ op[r].id \notin DOMAIN orders

---------------------------------------------------------------------------
(* C17 *)

\* the body supplies a name, a category and a price >= 0 (and no negative stock)
SuppliesRequired(body) ==
  /\ "name" \in DOMAIN body /\ body.name # ""
  /\ "category" \in DOMAIN body /\ body.category # ""
  /\ "price" \in DOMAIN body /\ body.price >= 0
  /\ "stock" \in DOMAIN body => body.stock >= 0

\* the body lacks name or category, or its price is missing or negative
LacksRequired(body) ==
  \/ "name" \notin DOMAIN body \/ "category" \notin DOMAIN body
  \/ "price" \notin DOMAIN body \/ body.price < 0

\* C17: create_product, the cache working, succeeds and inserts one active
\* product for every request with a name, a category and a price >= 0, price 0
\* included, and answers the validation error, the store unchanged, for every
\* request without name or category or with a missing or negative price.
C17_CreateAcceptsPriceFromZero ==
  \A r \in Reqs :
    (op[r].kind = "create_product" /\ Done(r) /\ hist[r].cacheFailed = {}) =>
      /\ SuppliesRequired(op[r].body) =>
           /\ Status(r) = 201
           /\ hist[r].committed
           /\ \E id \in DOMAIN products :
                /\ products[id].name = op[r].body.name
                /\ products[id].price = op[r].body.price
      /\ LacksRequired(op[r].body) =>
           /\ Status(r) = 400
           /\ ~hist[r].committed

---------------------------------------------------------------------------
(* C18 *)

\* the row the claim expects: the supplied fields at the supplied values, the
\* other fields and the active flag as in old
Supplied(old, body) ==
  [name |-> IF "name" \in DOMAIN body THEN body.name ELSE old.name,
   price |-> IF "price" \in DOMAIN body THEN body.price ELSE old.price,
   stock |-> IF "stock" \in DOMAIN body THEN body.stock ELSE old.stock,
   is_active |-> old.is_active]

---------------------------------------------------------------------------
(* C19 *)

CatalogMutation(r) == op[r].kind \in {"create_product", "update_product", "delete_product"}

\* the keys the claim names: products:all, and product:{X} for an update or a
\* delete of X
ClaimedKeys(r) ==
  IF op[r].kind = "create_product" THEN {AllKey} ELSE {AllKey, ProductKey(op[r].id)}

\* C19: a create_product, update_product or delete_product that is answered
\* with success has removed products:all and, for update and delete of X,
\* product:{X}, and nothing else: once it has returned, neither key holds an
\* entry that was in the cache when the mutation committed, and no step of the
\* request touches another key.
C19_MutationRemovesItsKeysOnly ==
  /\ [](\A r \in Reqs :
          (CatalogMutation(r) /\ Done(r) /\ Status(r) \in {200, 201}) =>
            /\ hist[r].invalidated = ClaimedKeys(r)
            /\ \A k \in ClaimedKeys(r) :
                 redis[k] = <<>> \/ redis[k] # hist[r].cachedBefore[k])
  /\ [][\A r \in Reqs : \A k \in Keys :
          (CatalogMutation(r) /\ pc'[r] # pc[r] /\ k \notin ClaimedKeys(r))
          => redis'[k] = redis[k]]_vars

\* an update_product of product 1 has returned: product:1, cached before the
\* update, is gone, and product:2, cached before it too, is still there
C19_Witness ==
  \E r \in Reqs :
    /\ op[r].kind = "update_product" /\ op[r].id = 1
    /\ Done(r) /\ Status(r) = 200
    /\ hist[r].cachedBefore[ProductKey(1)] # <<>>
    /\ hist[r].cachedBefore[ProductKey(2)] # <<>>
    /\ redis[ProductKey(1)] = <<>>
    /\ redis[ProductKey(2)] = hist[r].cachedBefore[ProductKey(2)]

---------------------------------------------------------------------------
(* C20 *)

\* the read of r was served from an entry that was in the cache when an order
\* committed
ServedEntryCachedBeforeAnOrder(r) ==
  /\ res[r][1].body.source = "cache"
  /\ hist[r].got # <<>>
  /\ \E o \in Reqs :
       /\ IsOrder(o) /\ hist[o].committed
       /\ hist[o].cachedBefore[ReadKey(r)] # <<>>
       /\ hist[o].cachedBefore[ReadKey(r)] = hist[r].got[1].entry

\* C20, for the entries cached before the order: a get_product(X) or
\* list_products that starts after a create_order which decremented the stock
\* of X has committed and been answered with success returns, for X, a row at
\* least as new as that decrement, also when it is served from the cache and
\* product:{X} or products:all was cached before the order.
C20_ReadsAfterOrderSeeItsStock ==
  \A r \in Reqs :
    (Done(r) /\ Status(r) = 200 /\ ServedEntryCachedBeforeAnOrder(r)) =>
      /\ op[r].kind = "get_product" =>
           res[r][1].body.data.ver >= hist[r].sawOrder[op[r].id]
      /\ op[r].kind = "list_products" =>
           \A id \in DOMAIN res[r][1].body.data :
             res[r][1].body.data[id].ver >= hist[r].sawOrder[id]

---------------------------------------------------------------------------
(* C21 *)

\* the lines of request r that name product id
LinesOf(r, id) ==
  {k \in 1..Len(op[r].body.items) : op[r].body.items[k].product_id = id}

\* request r names product id in several lines, each of them positive and
\* within the stock the product had when r arrived, their sum above it
SplitOversell(r, id) ==
  /\ IsOrder(r) /\ ValidOrder(r)
  /\ id \in hist[r].active0
  /\ Cardinality(LinesOf(r, id)) > 1
  /\ \A k \in LinesOf(r, id) :
       /\ op[r].body.items[k].quantity > 0
       /\ op[r].body.items[k].quantity <= hist[r].stock0[id]
  /\ Qty(op[r].body.items, id) > hist[r].stock0[id]

\* r is the only request that has arrived
Alone(r) == \A q \in Reqs \ {r} : pc[q] = "idle"

\* C21: a create_order request that names the same product in several lines
\* commits only if the sum of the quantities of those lines is at most the
\* product's stock; when the sum exceeds the stock, each single line being
\* within it, the request fails with InsufficientStock and nothing is committed.
C21_SplitLinesGiveInsufficientStock ==
  \A r \in Reqs : \A id \in DOMAIN products :
    (SplitOversell(r, id) /\ Alone(r) /\ Done(r)) =>
      /\ Status(r) = 500
      /\ res[r][1].body.error = <<"insufficient stock", id>>
      /\ NothingCommitted(r)

\* the part of C21 the code keeps: such a request never commits
SplitOversellNeverCommits ==
  \A r \in Reqs : \A id \in DOMAIN products :
    (SplitOversell(r, id) /\ Alone(r)) => NothingCommitted(r)

---------------------------------------------------------------------------
(* C22 *)

\* request r has a line with a zero or negative quantity
HasNonPositiveLine(r) ==
  \E k \in 1..Len(op[r].body.items) : op[r].body.items[k].quantity <= 0

\* the store holds no order item with a quantity <= 0 and no order with a
\* negative total_amount
NoNonPositiveItemNoNegativeTotal ==
  /\ \A k \in 1..Len(order_items) : order_items[k].quantity > 0
  /\ \A o \in DOMAIN orders : orders[o].total_amount >= 0

\* the step is the commit of a create_order
OrderCommits(r) == IsOrder(r) /\ ~hist[r].committed /\ hist'[r].committed

\* C22: no committed OrderItem has quantity <= 0, and no create_order request,
\* also one with a zero or negative quantity alone or mixed with positive
\* lines, ever commits an increase of a product's stock or an order with a
\* negative total_amount.
C22_NoNonPositiveQuantityCommits ==
  /\ []NoNonPositiveItemNoNegativeTotal
  /\ [][\A r \in Reqs : OrderCommits(r) =>
          \A id \in DOMAIN products : products'[id].stock <= products[id].stock]_vars

\* an order with a positive line and a negative one, whose total is not
\* negative, has been refused at the insert of its negative item and has left
\* the stocks to the order that committed next to it
C22_Witness ==
  \E r, q \in Reqs :
    /\ ValidOrder(r) /\ Done(r) /\ HasNonPositiveLine(r)
    /\ op[r].body.items[1].quantity > 0
    /\ Status(r) = 500 /\ res[r][1].body.error[1] = "check violation"
    /\ NothingCommitted(r)
    /\ q # r /\ IsOrder(q) /\ Done(q) /\ Status(q) = 201
    /\ \A id \in DOMAIN SeedProducts :
         products[id].stock = SeedProducts[id].stock - Qty(op[q].body.items, id)

---------------------------------------------------------------------------
(* C23 *)

\* the products the lines of request r name
OrderedProducts(r) ==
  {op[r].body.items[k].product_id : k \in 1..Len(op[r].body.items)}

\* C23: in every interleaving of create_order with delete_product on a product
\* of the order, the order commits with an OrderItem for that product and a
\* decrement of its stock only if the product is active at the moment of the
\* commit: an order never commits against a product whose soft delete
\* committed before it.
C23_OrderCommitsOnActiveProductsOnly ==
  [][\A r \in Reqs : OrderCommits(r) =>
       \A id \in OrderedProducts(r) : products[id].is_active]_vars

---------------------------------------------------------------------------
(* C24 *)

\* what request r asks for, without anything it says about prices or totals
Asked(r) ==
  [customer_name |-> op[r].body.customer_name,
   customer_email |-> op[r].body.customer_email,
   items |-> [k \in 1..Len(op[r].body.items) |->
                Item(op[r].body.items[k].product_id, op[r].body.items[k].quantity)]]

\* requests a and b arrived at the same products
SameStoreAtArrival(a, b) ==
  /\ hist[a].price0 = hist[b].price0
  /\ hist[a].stock0 = hist[b].stock0
  /\ hist[a].active0 = hist[b].active0

\* the order request r committed
OrderOf(r) == CHOOSE o \in DOMAIN orders : orders[o].req = r

\* the prices of the order items of order o, in line order
ItemPrices(o) == [k \in 1..Len(ItemsOf(o)) |-> ItemsOf(o)[k].price]

\* C24: the total_amount and the OrderItem prices of a created order depend only
\* on the store's prices and the requested quantities: two create_order requests
\* run from the same store state and identical except for a price or total
\* field supplied by the client produce the same total_amount and the same
\* OrderItem prices.
C24_ClientPricesAreIgnored ==
  \A a, b \in Reqs :
    (/\ IsOrder(a) /\ IsOrder(b)
     /\ hist[a].committed /\ hist[b].committed
     /\ Asked(a) = Asked(b)
     /\ SameStoreAtArrival(a, b)) =>
      /\ orders[OrderOf(a)].total_amount = orders[OrderOf(b)].total_amount
      /\ ItemPrices(OrderOf(a)) = ItemPrices(OrderOf(b))

\* two orders of the same two lines arrived at the same store, one without any
\* price and one with line prices 1 and 99 and a total of 0: both committed at
\* the prices of the store
C24_Witness ==
  \E a, b \in Reqs :
    /\ IsOrder(a) /\ IsOrder(b) /\ Done(a) /\ Done(b)
    /\ Status(a) = 201 /\ Status(b) = 201
    /\ Asked(a) = Asked(b) /\ SameStoreAtArrival(a, b)
    /\ op[a].body = Asked(a)
    /\ "total_amount" \in DOMAIN op[b].body
    /\ \E k \in 1..Len(op[b].body.items) :
         /\ "price" \in DOMAIN op[b].body.items[k]
         /\ op[b].body.items[k].price # products[op[b].body.items[k].product_id].price
    /\ orders[OrderOf(b)].total_amount = 30
    /\ ItemPrices(OrderOf(b)) = <<20, 10>>
    /\ orders[OrderOf(a)].total_amount = 30

---------------------------------------------------------------------------
(* C25 *)

\* C25: once an order has committed, no later update_product, delete_product or
\* create_order changes the order's total_amount or the price or quantity of
\* any of its OrderItems.
C25_CommittedOrderKeepsAmounts ==
  [][\A o \in DOMAIN orders :
       /\ o \in DOMAIN orders'
       /\ orders'[o].total_amount = orders[o].total_amount
       /\ ItemsOf(o)' = ItemsOf(o)]_vars

\* after an order of product 1 had committed at price 10, an update_product
\* that arrived later set the price to 15, and the order still has its item at
\* 10 and its total at 10 times the quantity
C25_Witness ==
  \E a, u \in Reqs :
    /\ IsOrder(a) /\ Done(a) /\ Status(a) = 201
    /\ op[u].kind = "update_product" /\ op[u].id = 1 /\ Done(u) /\ Status(u) = 200
    /\ OrderOf(a) \in hist[u].orders0
    /\ products[1].price = 15
    /\ Len(ItemsOf(OrderOf(a))) = 1
    /\ ItemsOf(OrderOf(a))[1].product_id = 1
    /\ ItemsOf(OrderOf(a))[1].price = 10
    /\ orders[OrderOf(a)].total_amount = 10 * ItemsOf(OrderOf(a))[1].quantity

---------------------------------------------------------------------------
(* C26 *)

\* the step is a cache command of request r: a get, a put or a del, resolved
\* or rejected
CacheCommandBy(r) ==
  \/ hist'[r].delIssued # hist[r].delIssued
  \/ hist'[r].cacheFailed # hist[r].cacheFailed
  \/ hist'[r].got # hist[r].got
  \/ pc'[r] # pc[r] /\ redis' # redis

\* C26: during create_order, no cache operation (get, put or invalidate) is
\* issued between the BEGIN of its store transaction and the COMMIT or
\* ROLLBACK that ends it.
C26_NoCacheCommandInsideTransaction ==
  [][\A r \in Reqs : (IsOrder(r) /\ CacheCommandBy(r)) => ~tx[r].open]_vars

\* two orders have finished: one invalidated products:all after its commit and
\* answered 201; the del of the other, also sent after its commit, rejected
C26_Witness ==
  \E a, b \in Reqs :
    /\ IsOrder(a) /\ Done(a) /\ Status(a) = 201
    /\ hist[a].committed /\ hist[a].invalidated = {AllKey}
    /\ IsOrder(b) /\ Done(b) /\ Status(b) = 500
    /\ hist[b].committed /\ hist[b].delIssued = {AllKey} /\ "del" \in hist[b].cacheFailed
    /\ ~tx[a].open /\ ~tx[b].open

---------------------------------------------------------------------------
(* C27 *)

\* the handler of r has ended, with or without an answer
Ended(r) == pc[r] \in {"done", "hung"}

\* C27: every create_order that acquired a pooled connection holds exactly that
\* one connection from acquisition until its transaction has committed or
\* rolled back, and releases it exactly once on every path (success, abort of
\* the stock check, store error, cache error after commit, rollback failure);
\* the number of connections checked out never exceeds the maximum of 20, and
\* no connection stays checked out after all requests have finished.
C27_OneConnectionHeldAndReleasedOnce ==
  /\ \A r \in Reqs :
       /\ pool.acquired[r] <= 1
       /\ pool.released[r] <= pool.acquired[r]
       /\ r \in pool.out <=> pool.acquired[r] = 1 /\ pool.released[r] = 0
       /\ tx[r].open => r \in pool.out
       /\ Ended(r) => pool.released[r] = pool.acquired[r]
  /\ Cardinality(pool.out) + pool.others <= 20
  /\ (\A r \in Reqs : pc[r] = "idle" \/ Ended(r)) => pool.out = {}

\* two orders have ended, each having acquired one client and released it
\* once: the ROLLBACK of one rejected and the request was never answered, the
\* other committed and answered 201; the other handlers hold all but one
\* client of the pool
C27_Witness ==
  \E a, b \in Reqs :
    /\ IsOrder(a) /\ pc[a] = "hung" /\ ~hist[a].committed
    /\ IsOrder(b) /\ Done(b) /\ Status(b) = 201
    /\ pool.acquired[a] = 1 /\ pool.released[a] = 1
    /\ pool.acquired[b] = 1 /\ pool.released[b] = 1
    /\ pool.out = {} /\ pool.others = PoolMax - 1

---------------------------------------------------------------------------
(* C28 *)

\* C28: every create_order request ends with exactly one result returned to the
\* caller, the created order or an error; also when the pool is exhausted and
\* the acquisition times out, and when the connection acquisition or the
\* ROLLBACK statement fails, the result is an error and not a request that
\* never answers.
C28_EveryOrderIsAnswered ==
  \A r \in Reqs :
    (IsOrder(r) /\ Ended(r)) =>
      /\ Len(res[r]) = 1
      /\ Status(r) \in {201, 400, 500}

---------------------------------------------------------------------------
(* C29 *)

\* C29: concurrent create_order requests whose item lists contain overlapping
\* products in different orders (one lists A then B, the other B then A) never
\* block each other forever: under fair scheduling each of them eventually
\* commits or rolls back, and the outcome satisfies the stock invariants.
C29_CrossingOrdersEndAndKeepStock ==
  /\ \A r \in Reqs : (IsOrder(r) /\ tx[r].open) ~> ~tx[r].open
  /\ [](C2_StockAndPriceNonNegative /\ C3_StockIsInitialMinusCommitted)

\* two orders that took the row locks of products 1 and 2 in opposite order
\* waited for each other: the deadlock detector aborted one, which rolled back
\* and answered 500, and the other committed both of its decrements
C29_Witness ==
  \E a, b \in Reqs :
    /\ IsOrder(a) /\ Done(a) /\ Status(a) = 500
    /\ res[a][1].body.error[1] = "deadlock detected"
    /\ ~hist[a].committed /\ ~tx[a].open
    /\ IsOrder(b) /\ Done(b) /\ Status(b) = 201
    /\ op[a].body.items[1].product_id # op[b].body.items[1].product_id
    /\ products[1].stock = SeedProducts[1].stock - 2
    /\ products[2].stock = SeedProducts[2].stock - 1

---------------------------------------------------------------------------
(* C30 *)

RECURSIVE Revenue(_)
\* the sum of total_amount over a set of order ids, each order counted once
Revenue(ids) ==
  IF ids = {} THEN 0
  ELSE LET o == CHOOSE x \in ids : TRUE
       IN orders[o].total_amount + Revenue(ids \ {o})

\* what the claim says get_stats returns in the store state it runs in
ClaimedStats ==
  [total_orders |-> Cardinality(DOMAIN orders),
   total_products |-> Cardinality({i \in DOMAIN products : products[i].is_active}),
   total_revenue |-> Revenue(DOMAIN orders),
   pending_orders |-> Cardinality({o \in DOMAIN orders : orders[o].status = "pending"})]

\* the step is the query and the answer of a get_stats
StatsAnswers(r) == pc[r] = "stats_query" /\ pc'[r] = "done"

\* C30: in every store state, get_stats returns total_orders equal to the number
\* of orders, total_products equal to the number of active products,
\* total_revenue equal to the sum of total_amount over all orders, each order
\* counted once, and pending_orders equal to the number of orders with status
\* pending, however many active products exist, zero included.
C30_StatsAreTheStoreTotals ==
  [][\A r \in Reqs : StatsAnswers(r) => res'[r][1].body.data = ClaimedStats]_vars

\* the three fields a cross join does not multiply are right as long as there
\* is an order and an active product
StatsCountsRightOnNonEmptyJoin ==
  [][\A r \in Reqs : (StatsAnswers(r) /\ StatsJoin # {}) =>
       /\ res'[r][1].body.data.total_orders = ClaimedStats.total_orders
       /\ res'[r][1].body.data.total_products = ClaimedStats.total_products
       /\ res'[r][1].body.data.pending_orders = ClaimedStats.pending_orders]_vars

---------------------------------------------------------------------------
(* C31 *)

\* a time to live of tens of seconds
ShortTTLs == 10..99

\* C31: get_stats follows the read-through policy under an aggregate statistics
\* key: it consults the cache first, on a miss queries the store and stores
\* the result with a short time to live (tens of seconds), and a result served
\* from that entry is never older than its time to live.
C31_StatsAreReadThrough ==
  [][\A r \in Reqs : StatsAnswers(r) =>
       /\ hist'[r].got # <<>>
       /\ redis'[StatsKey] # <<>>
       /\ JSONparse(redis'[StatsKey][1].value) = res'[r][1].body.data
       /\ redis'[StatsKey][1].expiry - redis'[StatsKey][1].at \in ShortTTLs
       /\ now < redis'[StatsKey][1].expiry]_vars

---------------------------------------------------------------------------
(* C32 *)

\* request r takes a step
Steps(r) == pc'[r] # pc[r]

\* the step stores an entry under key k
Writes(k) == redis'[k] # redis[k] /\ redis'[k] # <<>>

\* the step removes the entry of key k
Removes(k) == redis[k] # <<>> /\ redis'[k] = <<>>

\* request r is a list_products or get_product that missed the cache, has
\* read the store and is at its put
ReadAfterMiss(r) ==
  /\ op[r].kind \in {"list_products", "get_product"}
  /\ pc[r] \in {"list_setEx", "get_setEx"}
  /\ hist[r].got # <<>>
  /\ ~Unexpired(hist[r].got[1].entry, ReadKey(r), hist[r].got[1].at)

\* the string of the value it read
ValueRead(r) ==
  IF op[r].kind = "list_products"
  THEN JSONstringifyRows(loc[r].rows)
  ELSE JSONstringify(loc[r].row)

\* C32: a cache entry is written only by list_products or get_product on a
\* cache miss, with exactly the value just read from the store, and is removed
\* only by an invalidation that follows a successful store mutation (or by its
\* time to live running out): a get_product that finds no active product
\* writes no entry, and a mutation that fails (validation error, not found,
\* rolled-back order) removes no entry.
C32_EntriesWrittenOnMissRemovedAfterMutation ==
  [][/\ \A k \in Keys :
          /\ Writes(k) =>
                \E r \in Reqs :
                  /\ Steps(r) /\ ReadAfterMiss(r) /\ k = ReadKey(r)
                  /\ redis'[k][1].value = ValueRead(r)
          /\ Removes(k) =>
                \E r \in Reqs : Steps(r) /\ Mutating(r) /\ hist[r].committed
     /\ \A r \in Reqs :
          /\ (Steps(r) /\ pc[r] = "get_query" /\ pc'[r] = "done") => redis' = redis
          /\ (Steps(r) /\ Mutating(r) /\ ~hist'[r].committed) => redis' = redis]_vars

\* the catalog was cached by a list_products that missed; an order that came
\* after it was rolled back and answered 500, and the entry is still the one
\* the list_products wrote
C32_Witness ==
  \E a, b \in Reqs :
    /\ op[a].kind = "list_products" /\ Done(a) /\ Status(a) = 200
    /\ res[a][1].body.source = "database"
    /\ IsOrder(b) /\ Done(b) /\ Status(b) = 500 /\ ~hist[b].committed
    /\ a < b
    /\ redis[AllKey] # <<>>
    /\ redis[AllKey][1].by = a
    /\ redis[AllKey][1].value = JSONstringifyRows(res[a][1].body.data)

---------------------------------------------------------------------------
(* C33 *)

IsRead(r) == op[r].kind \in {"list_products", "get_product"}

\* the data of the answer of read r as res.json sends it: JSON.stringify of
\* the rows, or of the row
SentData(r) ==
  IF op[r].kind = "list_products"
  THEN JSONstringifyRows(res[r][1].body.data)
  ELSE JSONstringify(res[r][1].body.data)

\* what the same request gets from a handler without cache: the store query
\* of app.js 79-84 or 115-118 on the store as it is, sent by res.json
DirectData(r) ==
  IF op[r].kind = "list_products"
  THEN JSONstringifyRows(ActiveCatalog)
  ELSE JSONstringify(products[op[r].id])

\* read q missed the cache, stored what it read and was answered, and the time
\* to live of what it stored has not run out
AnsweredMissStillLive(q, key) ==
  /\ IsRead(q) /\ ReadKey(q) = key
  /\ Done(q) /\ Status(q) = 200 /\ res[q][1].body.source = "database"
  /\ hist[q].put # <<>>
  /\ now < hist[q].put[1] + ClaimedTTL(key)

\* C33: the cached catalog is equivalent to the uncached one when nothing is
\* mutated: in a sequence of list_products and get_product with no store
\* mutation, every response, hit or miss, carries the data a direct store
\* query for active products returns, and a miss is followed by hits for the
\* same key until the time to live has run out.
C33_CachedReadsEqualDirectReads ==
  /\ [](\A r \in Reqs :
         (IsRead(r) /\ Done(r) /\ Status(r) = 200) => SentData(r) = DirectData(r))
  /\ [][\A r \in Reqs :
         (GetResolves(r) /\ \E q \in Reqs : AnsweredMissStillLive(q, ReadKey(r))) =>
           /\ pc'[r] = "done"
           /\ res'[r][1].status = 200
           /\ res'[r][1].body.source = "cache"]_vars

\* a list_products missed, read the store and stored the catalog; a later one,
\* within the 300 s, was served from the cache, and both answers carry the
\* catalog of the store with the creation times as ISO strings
C33_Witness ==
  \E q, r \in Reqs :
    /\ op[q].kind = "list_products" /\ op[r].kind = "list_products"
    /\ Done(q) /\ Status(q) = 200 /\ res[q][1].body.source = "database"
    /\ Done(r) /\ Status(r) = 200 /\ res[r][1].body.source = "cache"
    /\ hist[q].put # <<>> /\ hist[r].got # <<>>
    /\ hist[r].got[1].at >= hist[q].put[1]
    /\ hist[r].got[1].at < hist[q].put[1] + ClaimedTTL(AllKey)
    /\ SentData(q) = SentData(r)
    /\ SentData(r) = DirectData(r)
    /\ res[q][1].body.data # res[r][1].body.data

---------------------------------------------------------------------------
(* C34 *)

\* C34: update_order_status performs no cache operation and changes nothing but
\* the status of the addressed order: the order's total_amount, its
\* OrderItems, every other order, every product's stock and every cache entry
\* are unchanged.
C34_StatusUpdateTouchesStatusOnly ==
  [][\A r \in Reqs : StatusStep(r) =>
       /\ ~CacheCommandBy(r) /\ faults' = faults /\ redis' = redis
       /\ products' = products
       /\ order_items' = order_items
       /\ DOMAIN orders' = DOMAIN orders
       /\ \A o \in DOMAIN orders :
            /\ o # op'[r].id => orders'[o] = orders[o]
            /\ [orders'[o] EXCEPT !.status = orders[o].status] = orders[o]]_vars

\* the order a request created was set to shipped by a later request: it has
\* its total and its item, the sample order is as init.sql made it, and the
\* stock of product 1 is what the order left
C34_Witness ==
  \E a, u \in Reqs :
    /\ IsOrder(a) /\ Done(a) /\ Status(a) = 201
    /\ IsStatusUpdate(u) /\ Done(u) /\ Status(u) = 200
    /\ op[u].id = OrderOf(a) /\ op[u].body.status = "shipped"
    /\ orders[OrderOf(a)].status = "shipped"
    /\ orders[OrderOf(a)].total_amount = ItemsTotal(ItemsOf(OrderOf(a)))
    /\ Len(ItemsOf(OrderOf(a))) = 1
    /\ orders[1] = SeedOrders[1]
    /\ products[1].stock = SeedProducts[1].stock - Qty(op[a].body.items, 1)

---------------------------------------------------------------------------
(* C35 *)

\* the body of a create_order request has an empty (or no) customer_name, an
\* empty (or no) customer_email or an empty (or no) item list
EmptyOrderBody(body) ==
  \/ "customer_name" \notin DOMAIN body \/ body.customer_name = ""
  \/ "customer_email" \notin DOMAIN body \/ body.customer_email = ""
  \/ "items" \notin DOMAIN body \/ body.items = <<>>

\* C35: a create_order request with an empty customer_name, an empty
\* customer_email or an empty item list is rejected with a Validation error
\* before any pooled connection is acquired or any transaction is opened, and
\* leaves the store and the cache unchanged.
C35_EmptyOrderIsRejectedBeforeConnecting ==
  /\ [](\A r \in Reqs : IsOrder(r) /\ EmptyOrderBody(op[r].body) =>
          /\ Done(r) /\ Status(r) = 400
          /\ res[r][1].body = [error |-> "Missing required fields"]
          /\ pool.acquired[r] = 0 /\ ~tx[r].open /\ ~hist[r].committed)
  /\ [][\A r \in Reqs :
          pc'[r] # pc[r] /\ IsOrder(r)' /\ EmptyOrderBody(op'[r].body) =>
            /\ pool' = pool /\ tx' = tx
            /\ ~CacheCommandBy(r) /\ redis' = redis
            /\ products' = products /\ orders' = orders
            /\ order_items' = order_items
            /\ productSeq' = productSeq /\ orderSeq' = orderSeq]_vars

\* an order with an empty customer_name was refused without a connection,
\* next to an order that took one and committed; the store has the sample
\* order and that one
C35_Witness ==
  \E r, q \in Reqs :
    /\ IsOrder(r) /\ Done(r) /\ Status(r) = 400
    /\ "customer_name" \in DOMAIN op[r].body /\ op[r].body.customer_name = ""
    /\ IsOrder(q) /\ Done(q) /\ Status(q) = 201
    /\ pool.acquired[r] = 0 /\ pool.acquired[q] = 1
    /\ DOMAIN orders = {1, 2}

---------------------------------------------------------------------------
(* C36 *)

IsDelete(r) == op[r].kind = "delete_product"

DeleteStep(r) == pc'[r] # pc[r] /\ op'[r].kind = "delete_product"

\* C36: delete_product never removes a product row, an order or an order
\* item: after any sequence of delete_product calls every previously committed
\* OrderItem still references an existing product row, and the deleted
\* product's name, price and stock are unchanged.
C36_DeleteProductRemovesNothing ==
  /\ [](\A i \in DOMAIN order_items :
          /\ order_items[i].product_id \in DOMAIN products
          /\ order_items[i].order_id \in DOMAIN orders)
  /\ [][\A r \in Reqs : DeleteStep(r) =>
          /\ DOMAIN products' = DOMAIN products
          /\ orders' = orders
          /\ order_items' = order_items
          /\ \A p \in DOMAIN products :
               /\ products'[p].name = products[p].name
               /\ products'[p].price = products[p].price
               /\ products'[p].stock = products[p].stock
               /\ p # op'[r].id => products'[p] = products[p]]_vars

\* products 1 and 2 were both deleted after an order of product 1 committed:
\* both rows are there, inactive, with their names and prices and the stock the
\* order left, and the items of both orders are there
C36_Witness ==
  \E a, d, e \in Reqs :
    /\ IsOrder(a) /\ Done(a) /\ Status(a) = 201
    /\ IsDelete(d) /\ Done(d) /\ Status(d) = 200 /\ op[d].id = 1
    /\ IsDelete(e) /\ Done(e) /\ Status(e) = 200 /\ op[e].id = 2
    /\ DOMAIN products = DOMAIN SeedProducts
    /\ \A p \in {1, 2} :
         /\ ~products[p].is_active
         /\ products[p].name = SeedProducts[p].name
         /\ products[p].price = SeedProducts[p].price
         /\ products[p].stock = SeedProducts[p].stock - Qty(op[a].body.items, p)
    /\ Len(order_items) = Len(SeedOrderItems) + 1
    /\ order_items[Len(order_items)].product_id = 1

---------------------------------------------------------------------------
(* C37 *)

\* the socket has the delays of its two retry counts
Delayed == socket.delay # <<>>

\* C37: the cache reconnection delay is min(retries * 50, 500) milliseconds:
\* for every retry count >= 0 it is non-decreasing in the retry count and never
\* exceeds 500 (and is a delay, never a refusal to reconnect), so reconnection
\* attempts continue with a capped delay.
C37_ReconnectDelayIsCappedAndMonotone ==
  Delayed =>
    /\ \A i \in DOMAIN socket.retries :
         /\ socket.delay[i] = (IF socket.retries[i] * 50 <= 500
                                THEN socket.retries[i] * 50 ELSE 500)
         /\ socket.delay[i] \in 0..500
    /\ \A i, j \in DOMAIN socket.retries :
         socket.retries[i] <= socket.retries[j] => socket.delay[i] <= socket.delay[j]

\* a retry count below the cap and one beyond it: 150 ms and 500 ms
C37_Witness ==
  /\ Delayed
  /\ socket.retries = <<3, MaxRetries>>
  /\ socket.delay = <<150, 500>>

====
